---- MODULE Spec2Model ----
(***************************************************************************)
(* The yex compile-and-execute core: the compiler of front/src/compiler,   *)
(* the stack virtual machine of vm/src/lib.rs and the file evaluator of    *)
(* yex/src/main.rs, as one state machine.                                  *)
(*                                                                         *)
(* A state is the file evaluator's position (pc), the file it was given,   *)
(* the number of lines the REPL has read (line), the VirtualMachine's      *)
(* fields (stack, locals, used_locals, constants,                          *)
(* globals) and the Rust call stack of active `run` invocations (frames:   *)
(* each holds run's own locals bytecode, ip, try_stack and frame_locals).  *)
(* One step is one iteration of run's dispatch loop.                       *)
(***************************************************************************)
EXTENDS Integers, Sequences, FiniteSets, TLC

VARIABLES pc, file, line, stack, locals, used_locals, constants, globals,
          frames, result, exit_code, ev

vars == <<pc, file, line, stack, locals, used_locals, constants, globals,
          frames, result, exit_code, ev>>

(***************************************************************************)
(* Bounds of the model and constants of the program.                       *)
(***************************************************************************)
\* largest loop count N given to a tail-recursive function
MaxIter == 3
\* largest declared arity of the applied lambda
MaxArity == 3
\* vm/src/lib.rs: const STACK_SIZE
STACK_SIZE == 512
\* vm/src/lib.rs: locals: [Value; 1024]
LOCALS_SIZE == 1024

(***************************************************************************)
(* Values (vm/src/literal/mod.rs, enum Value).  Num is an f64 in the       *)
(* source.  Here a Num is the fraction v / d in lowest terms with d > 0,   *)
(* or d = 0 for the values that are no number: v = 1 is +inf, v = -1 is    *)
(* -inf and v = 0 is NaN.  The programs of the model compute with small    *)
(* whole numbers and with quotients by powers of two, on which f64         *)
(* arithmetic is exact; -0.0 is not told from 0.0.                         *)
(***************************************************************************)
Num(n) == [tag |-> "Num", v |-> n, d |-> 1]
Str(s) == [tag |-> "Str", v |-> s]
Sym(s) == [tag |-> "Sym", v |-> s]
Bool(b) == [tag |-> "Bool", v |-> b]
Nil == [tag |-> "Nil", v |-> 0]
FnV(f) == [tag |-> "Fn", v |-> f]
List(xs) == [tag |-> "List", v |-> xs]
Tuple(xs) == [tag |-> "Tuple", v |-> xs]
Table(name) == [tag |-> "Table", v |-> name]
Type(ty) == [tag |-> "Type", v |-> ty]
Instance(inst) == [tag |-> "Instance", v |-> inst]

\* EnvTable::new / insert / get: a table is a function from names
NoFields == [x \in {} |-> 0]
table_insert(table, name, val) == (name :> val) @@ table
has_field(table, name) == name \in DOMAIN table

\* YexType::new(name, table, params): the name, the method table and the
\* ordered parameter names of a type without initializer
YexType(name, table, params) ==
    [name |-> name, fields |-> table, params |-> params]

Abs(n) == IF n < 0 THEN -n ELSE n
Sign(n) == IF n < 0 THEN -1 ELSE IF n = 0 THEN 0 ELSE 1
RECURSIVE GCD(_, _)
GCD(a, b) == IF b = 0 THEN a ELSE GCD(b, a % b)

\* the f64 p / q for whole p and q, q possibly 0 or negative
Rat(p, q) ==
    IF q = 0 THEN [tag |-> "Num", v |-> Sign(p), d |-> 0]
    ELSE LET g == GCD(Abs(p), Abs(q))
         IN  [tag |-> "Num", v |-> Sign(q) * (p \div g), d |-> Abs(q) \div g]
NaN == Rat(0, 0)
is_finite(x) == x.d # 0
is_nan(x) == x.d = 0 /\ x.v = 0

\* f64's ==: NaN equals nothing
NumEq(x, y) == ~is_nan(x) /\ x.v = y.v /\ x.d = y.d
\* f64's <, FALSE when one side is NaN
NumLess(x, y) ==
    /\ ~is_nan(x) /\ ~is_nan(y)
    /\ IF x.d = 0 /\ y.d = 0 THEN x.v < y.v ELSE x.v * y.d < y.v * x.d

\* #[derive(PartialEq)] on Value: same variant and equal payload
ValEq(a, b) ==
    /\ a.tag = b.tag
    /\ IF a.tag = "Num" THEN NumEq(a, b) ELSE a.v = b.v

\* Fn { body, arity, args }
BytecodeFn(code, arity) ==
    [body |-> [kind |-> "Bytecode", code |-> code, name |-> ""],
     arity |-> arity, args |-> <<>>]
NativeFn(name, arity) ==
    [body |-> [kind |-> "Native", code |-> <<>>, name |-> name],
     arity |-> arity, args |-> <<>>]

\* to_bool with every List true
to_bool_any_list(val) ==
    CASE val.tag = "Bool" -> val.v
      [] val.tag = "Sym" -> TRUE
      [] val.tag = "Str" -> val.v # ""
      [] val.tag = "Num" -> ~(val.v = 0 /\ val.d = 1)
      [] val.tag = "Nil" -> FALSE
      [] OTHER -> TRUE

\* Value::to_bool
to_bool(val) ==
    CASE val.tag = "Bool" -> val.v
      [] val.tag = "Sym" -> TRUE
      [] val.tag = "Str" -> val.v # ""
      [] val.tag = "Num" -> ~(val.v = 0 /\ val.d = 1)
      [] val.tag = "Nil" -> FALSE
      [] val.tag = "List" -> val.v # <<>>
      [] OTHER -> TRUE

(***************************************************************************)
(* Instructions (OpCode).  An instruction is its opcode with a numeric     *)
(* operand i and a symbol operand s; the unused operand is 0 or "".        *)
(***************************************************************************)
Op(op, i, s) == [op |-> op, i |-> i, s |-> s]
OpN(op, i) == Op(op, i, "")
OpS(op, s) == Op(op, 0, s)
Op0(op) == Op(op, 0, "")

(***************************************************************************)
(* The AST the parser hands to the compiler (front/src/parser/ast).        *)
(***************************************************************************)
ELit(val) == [kind |-> "Lit", lit |-> val]
EVar(name) == [kind |-> "Var", name |-> name]
ELambda(args, body) == [kind |-> "Lambda", args |-> args, body |-> body]
EApp(callee, args, tail) ==
    [kind |-> "App", callee |-> callee, args |-> args, tail |-> tail]
EIf(cond, then, else_) ==
    [kind |-> "If", cond |-> cond, then |-> then, else_ |-> else_]
ELet(bind, value) == [kind |-> "Let", bind |-> bind, value |-> value]
EBinary(left, op, right) ==
    [kind |-> "Binary", left |-> left, op |-> op, right |-> right]
EDo(body) == [kind |-> "Do", body |-> body]
ETry(body, bind, rescue) ==
    [kind |-> "Try", body |-> body, bind |-> bind, rescue |-> rescue]
EWhen(scrutinee, arms, wildcard) ==
    [kind |-> "When", expr |-> scrutinee, arms |-> arms, wildcard |-> wildcard]
\* WhenArm { cond, body }
WhenArm(cond, body) == [cond |-> cond, body |-> body]
\* Option<WildCard>: None, or Some(WildCard { bind, body }) with bind an
\* Option<VarDecl> ("" is None)
NoWildCard == [some |-> FALSE, bind |-> "", body |-> [kind |-> "none"]]
WildCard(bind, body) == [some |-> TRUE, bind |-> bind, body |-> body]
EList(xs) == [kind |-> "List", xs |-> xs]
ECons(head, tail) == [kind |-> "Cons", head |-> head, tail |-> tail]
EUnOp(op, right) == [kind |-> "UnOp", op |-> op, right |-> right]
EField(obj, field) == [kind |-> "Field", obj |-> obj, field |-> field]
EMethodRef(ty, method) == [kind |-> "MethodRef", ty |-> ty, method |-> method]
ENew(ty, args) == [kind |-> "New", ty |-> ty, args |-> args]
EInvoke(obj, field, args) ==
    [kind |-> "Invoke", obj |-> obj, field |-> field, args |-> args]
SDef(bind, value) == [kind |-> "Def", bind |-> bind, value |-> value]
\* StmtKind::Class { name, methods, params, init }, without initializer;
\* a method is a Def { bind, value } whose value is a lambda
SClass(name, methods, params) ==
    [kind |-> "Class", name |-> name, methods |-> methods, params |-> params]
SLet(bind, value) == [kind |-> "Let", bind |-> bind, value |-> value]

(***************************************************************************)
(* The compiler (front/src/compiler/mod.rs).  A compiler state c is        *)
(* Compiler { scope_stack, constants }; a Scope is { opcodes, locals }.    *)
(***************************************************************************)
NoLocals == [x \in {} |-> 0]
NewScope == [opcodes |-> <<>>, locals |-> NoLocals]
NewCompiler == [scope_stack |-> <<>>, constants |-> <<>>]

scope(c) == c.scope_stack[Len(c.scope_stack)]

push_scope(c, s) == [c EXCEPT !.scope_stack = Append(@, s)]
pop_scope(c) == [c EXCEPT !.scope_stack = SubSeq(@, 1, Len(@) - 1)]

emit_op(c, op) ==
    [c EXCEPT !.scope_stack[Len(c.scope_stack)].opcodes = Append(@, op)]

\* self.scope_mut().opcodes[label].opcode = op  (label is a 0-based index)
patch(c, label, op) ==
    [c EXCEPT !.scope_stack[Len(c.scope_stack)].opcodes[label + 1] = op]

\* self.scope().opcodes.len()
here(c) == Len(scope(c).opcodes)

\* self.constants.iter().position(|c| c == &const_): 1-based, 0 when absent
position(consts, val) ==
    IF \E i \in 1..Len(consts) : ValEq(consts[i], val)
    THEN CHOOSE i \in 1..Len(consts) :
            /\ ValEq(consts[i], val)
            /\ \A j \in 1..(i - 1) : ~ValEq(consts[j], val)
    ELSE 0

\* emit_const that appends every constant
emit_const_append(c, val) ==
    emit_op([c EXCEPT !.constants = Append(@, val)],
            OpN("Push", Len(c.constants)))

emit_const(c, val) ==
    LET idx == position(c.constants, val)
    IN  IF idx > 0
        THEN emit_op(c, OpN("Push", idx - 1))
        ELSE emit_op([c EXCEPT !.constants = Append(@, val)],
                     OpN("Push", Len(c.constants)))

emit_lit(c, lit) == emit_const(c, lit)

\* entry(bind.name).or_insert(len): a name already in the scope keeps its slot
emit_save(c, name) ==
    LET len == Cardinality(DOMAIN scope(c).locals) + 1
        c1 == [c EXCEPT !.scope_stack[Len(c.scope_stack)].locals =
                            @ @@ (name :> len)]
    IN  emit_op(c1, OpN("Save", len))

\* impl From<BinOp> for &[OpCode]
binop_ops(op) ==
    CASE op = "Add" -> <<Op0("Add")>>
      [] op = "Sub" -> <<Op0("Sub")>>
      [] op = "Mul" -> <<Op0("Mul")>>
      [] op = "Eq" -> <<Op0("Eq")>>
      [] OTHER -> <<Op0(op)>>

\* impl From<UnOp> for &[OpCode]
unop_ops(op) == <<Op0(op)>>

RECURSIVE emit_ops(_, _)
emit_ops(c, ops) ==
    IF ops = <<>> THEN c ELSE emit_ops(emit_op(c, Head(ops)), Tail(ops))

\* the scope a lambda body is compiled in: Save(idx) and name -> idx per
\* parameter (HashMap::insert: a repeated name keeps the last index)
RECURSIVE lambda_scope(_, _, _)
lambda_scope(args, idx, s) ==
    IF idx >= Len(args) THEN s
    ELSE lambda_scope(args, idx + 1,
            [opcodes |-> Append(s.opcodes, OpN("Save", idx)),
             locals |-> (args[idx + 1] :> idx) @@ s.locals])

\* var_op that looks for the name in the enclosing scopes too, innermost first
RECURSIVE var_op_enclosing_at(_, _, _)
var_op_enclosing_at(c, name, depth) ==
    IF depth = 0 THEN OpS("Loag", name)
    ELSE IF name \in DOMAIN c.scope_stack[depth].locals
    THEN OpN("Load", c.scope_stack[depth].locals[name])
    ELSE var_op_enclosing_at(c, name, depth - 1)
var_op_enclosing(c, name) == var_op_enclosing_at(c, name, Len(c.scope_stack))

\* the instruction of a reference to name: Load(idx) when the current scope
\* binds name, Loag(name) otherwise
var_op(c, name) ==
    IF name \in DOMAIN scope(c).locals
    THEN OpN("Load", scope(c).locals[name])
    ELSE OpS("Loag", name)

RECURSIVE expr(_, _)
RECURSIVE exprs_rev(_, _)
RECURSIVE do_body(_, _)
RECURSIVE when_arms(_, _, _)
RECURSIVE list_elems(_, _)
RECURSIVE typedef_methods(_, _, _)

\* and_expr without the Pop of the left operand
and_expr_no_pop(c, left, right) ==
    LET c1 == emit_op(expr(c, left), Op0("Dup"))
        then_label == here(c1)
        c2 == emit_op(c1, OpN("Jmf", 0))
        c3 == expr(c2, right)
    IN  patch(c3, then_label, OpN("Jmf", here(c3)))

\* ExprKind::Binary with BinOp::And
and_expr(c, left, right) ==
    LET c1 == emit_op(expr(c, left), Op0("Dup"))
        then_label == here(c1)
        c2 == emit_op(emit_op(c1, OpN("Jmf", 0)), Op0("Pop"))
        c3 == expr(c2, right)
    IN  patch(c3, then_label, OpN("Jmf", here(c3)))

\* or_expr with Not before Dup: the negation is what stays on the stack
or_expr_negation(c, left, right) ==
    LET c1 == emit_op(emit_op(expr(c, left), Op0("Not")), Op0("Dup"))
        then_label == here(c1)
        c2 == emit_op(c1, OpN("Jmf", 0))
        c3 == expr(c2, right)
    IN  patch(c3, then_label, OpN("Jmf", here(c3)))

\* ExprKind::Binary with BinOp::Or
or_expr(c, left, right) ==
    LET c1 == emit_op(emit_op(expr(c, left), Op0("Dup")), Op0("Not"))
        then_label == here(c1)
        c2 == emit_op(c1, OpN("Jmf", 0))
        c3 == expr(c2, right)
    IN  patch(c3, then_label, OpN("Jmf", here(c3)))

\* exprs_rev without the rev(): the arguments compiled in surface order
RECURSIVE exprs_fwd(_, _)
exprs_fwd(c, args) ==
    IF args = <<>> THEN c ELSE exprs_fwd(expr(c, Head(args)), Tail(args))

\* for arg in args.iter().rev() { self.expr(arg) }
exprs_rev(c, args) ==
    IF args = <<>> THEN c
    ELSE exprs_rev(expr(c, args[Len(args)]), SubSeq(args, 1, Len(args) - 1))

\* for expr in body { self.expr(expr); self.emit_op(OpCode::Pop) }
do_body(c, body) ==
    IF body = <<>> THEN c
    ELSE do_body(emit_op(expr(c, Head(body)), Op0("Pop")), Tail(body))

\* self.scope_mut().opcodes.pop()
pop_op(c) ==
    [c EXCEPT !.scope_stack[Len(c.scope_stack)].opcodes =
                    SubSeq(@, 1, Len(@) - 1)]

\* returns the compiler state and the Fn compiled
lambda_fn(c2, arity) ==
    [c |-> pop_scope(c2), func |-> BytecodeFn(scope(c2).opcodes, arity)]
lambda_expr(c, args, body) ==
    lambda_fn(expr(push_scope(c, lambda_scope(args, 0, NewScope)), body),
              Len(args))

\* self.emit_const(Value::Fn(GcRef::new(func)), loc)
emit_fn(r) == emit_const(r.c, FnV(r.func))

\* if_expr that leaves the Jmp over the else branch as it was emitted
if_expr_unpatched(c, cond, then, else_) ==
    LET c1 == expr(c, cond)
        then_label == here(c1)
        c2 == emit_op(c1, OpN("Jmf", 0))
        c3 == expr(c2, then)
        c4 == emit_op(c3, OpN("Jmp", 0))
        c5 == patch(c4, then_label, OpN("Jmf", here(c4)))
    IN  expr(c5, else_)

\* if_expr without the Jmp over the else branch
if_expr_no_jmp(c, cond, then, else_) ==
    LET c1 == expr(c, cond)
        then_label == here(c1)
        c2 == emit_op(c1, OpN("Jmf", 0))
        c3 == expr(c2, then)
        c5 == patch(c3, then_label, OpN("Jmf", here(c3)))
    IN  expr(c5, else_)

if_expr(c, cond, then, else_) ==
    LET c1 == expr(c, cond)
        then_label == here(c1)
        c2 == emit_op(c1, OpN("Jmf", 0))
        c3 == expr(c2, then)
        else_label == here(c3)
        c4 == emit_op(c3, OpN("Jmp", 0))
        c5 == patch(c4, then_label, OpN("Jmf", here(c4)))
        c6 == expr(c5, else_)
    IN  patch(c6, else_label, OpN("Jmp", here(c6)))

\* when_arms that compiles the arms from the last to the first
RECURSIVE when_arms_rev(_, _, _)
when_arms_rev(c, arms, jmps) ==
    IF arms = <<>> THEN [c |-> c, jmps |-> jmps]
    ELSE LET arm == arms[Len(arms)]
             c1 == emit_op(c, Op0("Dup"))
             c2 == emit_op(expr(c1, arm.cond), Op0("Eq"))
             label == here(c2)
             c3 == emit_op(emit_op(c2, OpN("Jmf", 0)), Op0("Pop"))
             c4 == expr(c3, arm.body)
             jmp == here(c4)
             c5 == emit_op(c4, OpN("Jmp", 0))
             c6 == patch(c5, label, OpN("Jmf", here(c5)))
         IN  when_arms_rev(c6, SubSeq(arms, 1, Len(arms) - 1),
                           Append(jmps, jmp))

\* the arms of when_expr: returns the compiler state and jmps, the indices
\* of the Jmps to the end
when_arms(c, arms, jmps) ==
    IF arms = <<>> THEN [c |-> c, jmps |-> jmps]
    ELSE LET arm == Head(arms)
             c1 == emit_op(c, Op0("Dup"))
             c2 == emit_op(expr(c1, arm.cond), Op0("Eq"))
             label == here(c2)
             c3 == emit_op(emit_op(c2, OpN("Jmf", 0)), Op0("Pop"))
             c4 == expr(c3, arm.body)
             jmp == here(c4)
             c5 == emit_op(c4, OpN("Jmp", 0))
             c6 == patch(c5, label, OpN("Jmf", here(c5)))
         IN  when_arms(c6, Tail(arms), Append(jmps, jmp))

\* patch_jmps that sends every Jmp back to the start of the vector
RECURSIVE patch_jmps_back(_, _, _)
patch_jmps_back(c, jmps, ip) ==
    IF jmps = <<>> THEN c
    ELSE patch_jmps_back(patch(c, Head(jmps), OpN("Jmp", 0)), Tail(jmps), ip)

\* for jmp in jmps { opcodes[jmp] = Jmp(ip) }
RECURSIVE patch_jmps(_, _, _)
patch_jmps(c, jmps, ip) ==
    IF jmps = <<>> THEN c
    ELSE patch_jmps(patch(c, Head(jmps), OpN("Jmp", ip)), Tail(jmps), ip)

when_expr(c, cond, arms, wc) ==
    LET r == when_arms(expr(c, cond), arms, <<>>)
        c1 == IF wc.some
              THEN expr(IF wc.bind # "" THEN emit_save(r.c, wc.bind) ELSE r.c,
                        wc.body)
              ELSE emit_const(emit_op(r.c, Op0("Pop")), Nil)
    IN  patch_jmps(c1, r.jmps, here(c1))

\* for x in xs.iter().rev() { self.expr(x); self.emit_op(OpCode::Prep) }
list_elems(c, xs) ==
    IF xs = <<>> THEN c
    ELSE list_elems(emit_op(expr(c, xs[Len(xs)]), Op0("Prep")),
                    SubSeq(xs, 1, Len(xs) - 1))

\* list_expr with the elements compiled in surface order
RECURSIVE list_elems_fwd(_, _)
list_elems_fwd(c, xs) ==
    IF xs = <<>> THEN c
    ELSE list_elems_fwd(emit_op(expr(c, Head(xs)), Op0("Prep")), Tail(xs))
list_expr_fwd(c, xs) == list_elems_fwd(emit_const(c, List(<<>>)), xs)

\* ExprKind::List
list_expr(c, xs) == list_elems(emit_const(c, List(<<>>)), xs)

\* ExprKind::Cons
cons_expr(c, head, tail) == emit_op(expr(expr(c, tail), head), Op0("Prep"))

\* invoke_expr with the arguments compiled in surface order
invoke_expr_args_fwd(c, obj, field, args) ==
    LET c1 == expr(exprs_fwd(c, args), obj)
        c2 == emit_op(emit_op(c1, Op0("Dup")), Op0("Type"))
    IN  emit_op(emit_op(c2, OpS("Ref", field)), OpN("Call", Len(args) + 1))

\* ExprKind::Invoke
invoke_expr(c, obj, field, args) ==
    LET c1 == expr(exprs_rev(c, args), obj)
        c2 == emit_op(emit_op(c1, Op0("Dup")), Op0("Type"))
    IN  emit_op(emit_op(c2, OpS("Ref", field)), OpN("Call", Len(args) + 1))

\* try_expr without the EndTry after the body
try_expr_no_end_try(c, body, bind, rescue) ==
    LET try_label == here(c)
        c1 == emit_op(c, OpN("Try", 0))
        c2 == expr(c1, body)
        end_label == here(c2)
        c3 == emit_op(c2, OpN("Jmp", 0))
        c4 == patch(c3, try_label, OpN("Try", here(c3)))
        c5 == emit_save(emit_op(c4, Op0("Pop")), bind)
        c6 == expr(c5, rescue)
    IN  patch(c6, end_label, OpN("Jmp", here(c6)))

\* ExprKind::Try
try_expr(c, body, bind, rescue) ==
    LET try_label == here(c)
        c1 == emit_op(c, OpN("Try", 0))
        c2 == emit_op(expr(c1, body), Op0("EndTry"))
        end_label == here(c2)
        c3 == emit_op(c2, OpN("Jmp", 0))
        c4 == patch(c3, try_label, OpN("Try", here(c3)))
        c5 == emit_save(emit_op(c4, Op0("Pop")), bind)
        c6 == expr(c5, rescue)
    IN  patch(c6, end_label, OpN("Jmp", here(c6)))

expr(c, node) ==
    CASE node.kind = "Lit" -> emit_lit(c, node.lit)
      [] node.kind = "Lambda" ->
            emit_fn(lambda_expr(c, node.args, node.body))
      [] node.kind = "App" ->
            LET c1 == exprs_rev(c, node.args)
                c2 == expr(c1, node.callee)
            IN  IF node.tail
                THEN emit_op(c2, OpN("TCall", Len(node.args)))
                ELSE emit_op(c2, OpN("Call", Len(node.args)))
      [] node.kind = "Var" -> emit_op(c, var_op(c, node.name))
      [] node.kind = "If" -> if_expr(c, node.cond, node.then, node.else_)
      [] node.kind = "Let" ->
            emit_const(emit_save(expr(c, node.value), node.bind), Nil)
      [] node.kind = "Binary" /\ node.op = "And" ->
            and_expr(c, node.left, node.right)
      [] node.kind = "Binary" /\ node.op = "Or" ->
            or_expr(c, node.left, node.right)
      [] node.kind = "Binary" /\ node.op \notin {"And", "Or"} ->
            emit_ops(expr(expr(c, node.left), node.right), binop_ops(node.op))
      [] node.kind = "Do" ->
            pop_op(do_body(c, node.body))
      [] node.kind = "Try" -> try_expr(c, node.body, node.bind, node.rescue)
      [] node.kind = "When" -> when_expr(c, node.expr, node.arms, node.wildcard)
      [] node.kind = "List" -> list_expr(c, node.xs)
      [] node.kind = "Cons" -> cons_expr(c, node.head, node.tail)
      [] node.kind = "UnOp" -> emit_ops(expr(c, node.right), unop_ops(node.op))
      [] node.kind = "Field" -> emit_op(expr(c, node.obj), OpS("Get", node.field))
      [] node.kind = "MethodRef" ->
            emit_op(expr(c, node.ty), OpS("Ref", node.method))
      [] node.kind = "New" ->
            emit_op(expr(exprs_rev(c, node.args), node.ty),
                    OpN("New", Len(node.args)))
      [] node.kind = "Invoke" -> invoke_expr(c, node.obj, node.field, node.args)

\* the method table of typedef: every method compiled as a lambda
typedef_method(r, methods, table) ==
    typedef_methods(r.c, Tail(methods),
                    table_insert(table, Head(methods).bind, FnV(r.func)))
typedef_methods(c, methods, table) ==
    IF methods = <<>> THEN [c |-> c, table |-> table]
    ELSE typedef_method(lambda_expr(c, Head(methods).value.args,
                                    Head(methods).value.body),
                        methods, table)

\* typedef, for a declaration without initializer
typedef_type(r, decl, params) ==
    emit_op(emit_const(r.c, Type(YexType(decl, r.table, params))),
            OpS("Savg", decl))
typedef(c, decl, methods, params) ==
    typedef_type(typedef_methods(c, methods, NoFields), decl, params)

stmt(c, node) ==
    CASE node.kind = "Def" -> emit_op(expr(c, node.value), OpS("Savg", node.bind))
      [] node.kind = "Let" -> emit_op(expr(c, node.value), OpS("Savg", node.bind))
      [] node.kind = "Class" ->
            typedef(c, node.name, node.methods, node.params)
      [] node.kind = "Expr" -> expr(c, node.expr)

RECURSIVE stmts_loop(_, _)
stmts_loop(c, stmts) ==
    IF stmts = <<>> THEN c ELSE stmts_loop(stmt(c, Head(stmts)), Tail(stmts))

\* (self.scope_stack.pop().unwrap().opcodes, self.constants)
compiled(c) == [opcodes |-> scope(c).opcodes, constants |-> c.constants]

\* compile_expr: returns (opcodes, constants)
compile_expr(node) == compiled(expr(push_scope(NewCompiler, NewScope), node))

\* returns (opcodes, constants)
compile_stmts(stmts) ==
    compiled(stmts_loop(push_scope(NewCompiler, NewScope), stmts))

(***************************************************************************)
(* The virtual machine (vm/src/lib.rs).                                    *)
(***************************************************************************)
\* self.stack.push / self.stack.pop / the value pop returns
push(stk, val) == Append(stk, val)
pop(stk) == SubSeq(stk, 1, Len(stk) - 1)
top(stk) == stk[Len(stk)]

\* locals: [Value; 1024], all NIL at construction; the model stores the
\* slots that were written
local_at(loc, idx) == IF idx \in DOMAIN loc THEN loc[idx] ELSE Nil
local_set(loc, idx, val) == (idx :> val) @@ loc

\* EnvTable::get / insert
has_global(glob, name) == name \in DOMAIN glob
set_global(glob, name, val) == (name :> val) @@ glob

\* prelude::prelude(): the built-in native functions
prelude == ("println" :> FnV(NativeFn("println", 1)))

\* a native function of the prelude applied to its arguments
native_call(name, args) == [err |-> "", val |-> Nil]

\* the result of one run_op: err is "" for Ok(()), the error's symbol for
\* Err, "panic" for a Rust panic
Res(err, stk, loc, used, fl, glob) ==
    [err |-> err, stack |-> stk, locals |-> loc, used_locals |-> used,
     frame_locals |-> fl, globals |-> glob]

\* f64's +, -, *, / and % (IEEE 754; % is the remainder of the division
\* truncated towards zero)
f64_neg(x) == [x EXCEPT !.v = -x.v]
f64_add(x, y) ==
    IF is_finite(x) /\ is_finite(y) THEN Rat(x.v * y.d + y.v * x.d, x.d * y.d)
    ELSE IF is_finite(y) THEN x
    ELSE IF is_finite(x) THEN y
    ELSE IF x.v = y.v THEN x ELSE NaN
f64_mul(x, y) ==
    IF is_finite(x) /\ is_finite(y) THEN Rat(x.v * y.v, x.d * y.d)
    ELSE Rat(Sign(x.v) * Sign(y.v), 0)
f64_div(x, y) ==
    IF is_finite(x) /\ is_finite(y) THEN Rat(x.v * y.d, x.d * y.v)
    ELSE IF is_finite(y) THEN Rat(x.v * (IF y.v < 0 THEN -1 ELSE 1), 0)
    ELSE IF is_finite(x) /\ ~is_nan(y) THEN Rat(0, 1)
    ELSE NaN
trunc_div(n, m) == Sign(n) * Sign(m) * (Abs(n) \div Abs(m))
f64_rem(x, y) ==
    IF ~is_finite(x) \/ is_nan(y) \/ (is_finite(y) /\ y.v = 0) THEN NaN
    ELSE IF ~is_finite(y) THEN x
    ELSE LET q == trunc_div(x.v * y.d, x.d * y.v)
         IN  Rat(x.v * y.d - q * y.v * x.d, x.d * y.d)

\* impl_numeric! with a last arm that yields the left operand
numeric_lenient(op, x, y) ==
    IF x.tag = "Num" /\ y.tag = "Num"
    THEN [err |-> "",
          val |-> CASE op = "Add" -> f64_add(x, y)
                    [] op = "Sub" -> f64_add(x, f64_neg(y))
                    [] op = "Mul" -> f64_mul(x, y)
                    [] op = "Div" -> f64_div(x, y)
                    [] op = "Rem" -> f64_rem(x, y)]
    ELSE IF x.tag = "Str" /\ y.tag = "Str"
    THEN [err |-> "", val |-> Str(x.v \o y.v)]
    ELSE [err |-> "", val |-> x]

\* impl_numeric!: Add, Sub, Mul, Div, Rem for Value
numeric(op, x, y) ==
    IF x.tag = "Num" /\ y.tag = "Num"
    THEN [err |-> "",
          val |-> CASE op = "Add" -> f64_add(x, y)
                    [] op = "Sub" -> f64_add(x, f64_neg(y))
                    [] op = "Mul" -> f64_mul(x, y)
                    [] op = "Div" -> f64_div(x, y)
                    [] op = "Rem" -> f64_rem(x, y)]
    ELSE IF x.tag = "Str" /\ y.tag = "Str"
    THEN [err |-> "", val |-> Str(x.v \o y.v)]
    ELSE [err |-> "TypeError", val |-> Nil]

\* the value of `x as u64` for an f64 without fractional part: a negative
\* number is 0 (the cast saturates)
as_u64(x) == IF x.v < 0 THEN 0 ELSE x.v

\* &, | and ^ of two naturals, bit by bit
RECURSIVE bits(_, _, _)
bits(op, a, b) ==
    IF a = 0 /\ b = 0 THEN 0
    ELSE LET x == a % 2
             y == b % 2
             z == CASE op = "BitAnd" -> IF x = 1 /\ y = 1 THEN 1 ELSE 0
                    [] op = "BitOr" -> IF x = 1 \/ y = 1 THEN 1 ELSE 0
                    [] op = "Xor" -> IF x # y THEN 1 ELSE 0
         IN  z + 2 * bits(op, a \div 2, b \div 2)

RECURSIVE pow2(_)
pow2(n) == IF n = 0 THEN 1 ELSE 2 * pow2(n - 1)

\* impl_bit!: BitAnd, BitOr, Xor, Shl, Shr for Value.  Both operands are cast
\* to u64.  The shift amounts of the model stay below 64 and no bit is
\* shifted out of the 64.
bitwise(op, x, y) ==
    IF x.tag = "Num" /\ y.tag = "Num" /\ x.d = 1 /\ y.d = 1
    THEN LET a == as_u64(x)
             b == as_u64(y)
         IN  [err |-> "",
              val |-> Num(CASE op = "Shl" -> a * pow2(b)
                            [] op = "Shr" -> a \div pow2(b)
                            [] OTHER -> bits(op, a, b))]
    ELSE IF x.tag = "Str" /\ y.tag = "Str"
    THEN [err |-> "", val |-> Str(x.v \o y.v)]
    ELSE [err |-> "TypeError", val |-> Nil]

\* ord_cmp with the sides of the comparison exchanged
ord_cmp_exchanged(op, x, y) ==
    IF x.tag = "Num" /\ y.tag = "Num" /\ ~is_nan(x) /\ ~is_nan(y)
    THEN [err |-> "",
          val |-> Bool(IF op = "Less" THEN NumLess(y, x) ELSE ~NumLess(x, y))]
    ELSE [err |-> "TypeError", val |-> Nil]

\* Value::ord_cmp followed by is_lt (Less) or is_le (LessEq)
ord_cmp(op, x, y) ==
    IF x.tag = "Num" /\ y.tag = "Num" /\ ~is_nan(x) /\ ~is_nan(y)
    THEN [err |-> "",
          val |-> Bool(IF op = "Less" THEN NumLess(x, y) ELSE ~NumLess(y, x))]
    ELSE [err |-> "TypeError", val |-> Nil]

\* impl Neg for Value
neg(x) ==
    IF x.tag = "Num" THEN [err |-> "", val |-> f64_neg(x)]
    ELSE [err |-> "TypeError", val |-> Nil]

\* binop that calls f(a, b): the top of the stack as the left operand
binop_top_left(op, stk) ==
    LET a == top(stk)
        b == top(pop(stk))
        rest == pop(pop(stk))
        r == CASE op = "Eq" -> [err |-> "", val |-> Bool(ValEq(a, b))]
               [] op \in {"Add", "Sub", "Mul", "Div", "Rem"} -> numeric(op, a, b)
               [] op \in {"Less", "LessEq"} -> ord_cmp(op, b, a)
               [] OTHER -> bitwise(op, a, b)
    IN  [err |-> r.err,
         stack |-> IF r.err = "" THEN push(rest, r.val) ELSE rest]

\* binop: a = pop(), b = pop(), push(f(b, a)?)
binop(op, stk) ==
    LET a == top(stk)
        b == top(pop(stk))
        rest == pop(pop(stk))
        r == CASE op = "Eq" -> [err |-> "", val |-> Bool(ValEq(b, a))]
               [] op \in {"Add", "Sub", "Mul", "Div", "Rem"} -> numeric(op, b, a)
               [] op \in {"Less", "LessEq"} -> ord_cmp(op, b, a)
               [] OTHER -> bitwise(op, b, a)
    IN  [err |-> r.err,
         stack |-> IF r.err = "" THEN push(rest, r.val) ELSE rest]

\* Value::type_of: a Type is its own type, an Instance has the type it was
\* made from, every other value a built-in type named after its variant
type_of(val) ==
    CASE val.tag = "Type" -> val.v
      [] val.tag = "Instance" -> val.v.ty
      [] OTHER -> YexType(val.tag, NoFields, <<>>)

\* List::prepend
prepend(list, val) == <<val>> \o list

\* the first n values popped from the stack, in the order they are popped
popped(stk, n) == [i \in 1..n |-> stk[Len(stk) - i + 1]]

\* instantiate, for a type without initializer: the parameters zipped with
\* the arguments
instantiate(ty, args) ==
    LET n == IF Len(args) < Len(ty.params) THEN Len(args) ELSE Len(ty.params)
    IN  [ty |-> ty,
         fields |-> [name \in {ty.params[i] : i \in 1..n} |->
                        args[CHOOSE i \in 1..n : ty.params[i] = name]]]

\* run_op, every opcode but Call
run_op(op, stk, loc, used, fl, glob, consts) ==
    CASE op.op = "Nop" -> Res("", stk, loc, used, fl, glob)
      [] op.op = "Push" ->
            IF op.i < Len(consts)
            THEN Res("", push(stk, consts[op.i + 1]), loc, used, fl, glob)
            ELSE Res("panic", stk, loc, used, fl, glob)
      [] op.op = "Pop" -> Res("", pop(stk), loc, used, fl, glob)
      [] op.op = "Dup" -> Res("", push(stk, top(stk)), loc, used, fl, glob)
      [] op.op = "Rev" ->
            Res("", push(push(pop(pop(stk)), top(stk)), top(pop(stk))),
                loc, used, fl, glob)
      [] op.op \in {"Add", "Sub", "Mul", "Div", "Rem", "BitAnd", "BitOr", "Xor",
                     "Shl", "Shr", "Eq", "Less", "LessEq"} ->
            LET r == binop(op.op, stk)
            IN  Res(r.err, r.stack, loc, used, fl, glob)
      [] op.op = "Neg" ->
            LET r == neg(top(stk))
            IN  Res(r.err, IF r.err = "" THEN push(pop(stk), r.val) ELSE pop(stk),
                    loc, used, fl, glob)
      [] op.op = "Not" ->
            Res("", push(pop(stk), Bool(~to_bool(top(stk)))), loc, used, fl, glob)
      [] op.op = "Load" ->
            LET idx == op.i + used - fl
            IN  IF idx < LOCALS_SIZE
                THEN Res("", push(stk, local_at(loc, idx)), loc, used, fl, glob)
                ELSE Res("panic", stk, loc, used, fl, glob)
      [] op.op = "Save" ->
            LET idx == op.i + ((used + 1) - (fl + 1))
            IN  IF idx < LOCALS_SIZE
                THEN Res("", pop(stk), local_set(loc, idx, top(stk)),
                         used + 1, fl + 1, glob)
                ELSE Res("panic", pop(stk), loc, used + 1, fl + 1, glob)
      [] op.op = "Drop" -> Res("", stk, loc, used - 1, fl - 1, glob)
      [] op.op = "Loag" ->
            IF has_global(glob, op.s)
            THEN Res("", push(stk, glob[op.s]), loc, used, fl, glob)
            ELSE Res("NameError", stk, loc, used, fl, glob)
      [] op.op = "Savg" ->
            Res("", pop(stk), loc, used, fl, set_global(glob, op.s, top(stk)))
      [] op.op = "Prep" ->
            LET value == top(stk)
                list == top(pop(stk))
                rest == pop(pop(stk))
            IN  IF list.tag = "List"
                THEN Res("", push(rest, List(prepend(list.v, value))),
                         loc, used, fl, glob)
                ELSE Res("TypeError", rest, loc, used, fl, glob)
      [] op.op = "New" ->
            LET ty == top(stk)
                args == popped(pop(stk), op.i)
                rest == SubSeq(stk, 1, Len(stk) - 1 - op.i)
            IN  IF ty.tag = "Type"
                THEN Res("", push(rest, Instance(instantiate(ty.v, args))),
                         loc, used, fl, glob)
                ELSE Res("TypeError", pop(stk), loc, used, fl, glob)
      [] op.op = "Get" ->
            LET obj == top(stk)
            IN  IF obj.tag # "Instance"
                THEN Res("TypeError", pop(stk), loc, used, fl, glob)
                ELSE IF has_field(obj.v.fields, op.s)
                THEN Res("", push(pop(stk), obj.v.fields[op.s]),
                         loc, used, fl, glob)
                ELSE Res("FieldError", pop(stk), loc, used, fl, glob)
      [] op.op = "Type" ->
            Res("", push(pop(stk), Type(type_of(top(stk)))), loc, used, fl, glob)
      [] op.op = "Ref" ->
            LET ty == top(stk)
            IN  IF ty.tag # "Type"
                THEN Res("TypeError", pop(stk), loc, used, fl, glob)
                ELSE IF has_field(ty.v.fields, op.s)
                THEN Res("", push(pop(stk), ty.v.fields[op.s]),
                         loc, used, fl, glob)
                ELSE Res("FieldError", pop(stk), loc, used, fl, glob)

\* call_args with the arguments already bound put before the new ones
call_args_bound_first(arity, fun, stk) ==
    IF fun.arity = arity /\ fun.body.kind = "Bytecode" /\ fun.args = <<>>
    THEN [args |-> <<>>, stack |-> stk]
    ELSE [args |-> fun.args \o SubSeq(stk, Len(stk) - arity + 1, Len(stk)),
          stack |-> SubSeq(stk, 1, Len(stk) - arity)]

\* call_args: the arguments of a call in the order call_bytecode pushes them.
\* The i-th popped value goes to index arity - i, so args is the top `arity`
\* values of the stack, deepest first; the arguments already bound follow.
call_args(arity, fun, stk) ==
    IF fun.arity = arity /\ fun.body.kind = "Bytecode" /\ fun.args = <<>>
    THEN [args |-> <<>>, stack |-> stk]
    ELSE [args |-> SubSeq(stk, Len(stk) - arity + 1, Len(stk)) \o fun.args,
          stack |-> SubSeq(stk, 1, Len(stk) - arity)]

\* Fn::apply: the same body, the arity reduced by the arguments just given,
\* the accumulated arguments stored in args
apply(fun, args) ==
    [body |-> fun.body,
     arity |-> fun.arity + Len(fun.args) - Len(args),
     args |-> args]

\* StackVec::reverse
RECURSIVE reverse(_)
reverse(s) == IF s = <<>> THEN <<>> ELSE Append(reverse(Tail(s)), Head(s))

\* call without the test arity > fun.arity
call_unchecked(arity, stk) ==
    LET fv == top(stk)
        ca == call_args(arity, fv.v, pop(stk))
        none == [kind |-> "err", err |-> "", stack |-> stk, args |-> <<>>,
                 code |-> <<>>]
    IN  IF fv.tag # "Fn"
        THEN [none EXCEPT !.err = "TypeError", !.stack = pop(stk)]
        ELSE IF arity < fv.v.arity
        THEN [none EXCEPT !.kind = "partial",
                          !.stack = push(ca.stack, FnV(apply(fv.v, ca.args)))]
        ELSE IF fv.v.body.kind = "Bytecode"
        THEN [none EXCEPT !.kind = "bytecode", !.stack = ca.stack,
                          !.args = ca.args, !.code = fv.v.body.code]
        ELSE LET r == native_call(fv.v.body.name, reverse(ca.args))
             IN  IF r.err = ""
                 THEN [none EXCEPT !.kind = "native",
                                   !.stack = push(ca.stack, r.val)]
                 ELSE [none EXCEPT !.err = r.err, !.stack = ca.stack]

\* call, on the stack with the callee on top.  kind is "err" (with err),
\* "partial" (the new Fn is pushed), "native" (the result is pushed) or
\* "bytecode" (args are to be pushed and code run in a new frame).
call(arity, stk) ==
    LET fv == top(stk)
        ca == call_args(arity, fv.v, pop(stk))
        none == [kind |-> "err", err |-> "", stack |-> stk, args |-> <<>>,
                 code |-> <<>>]
    IN  IF fv.tag # "Fn"
        THEN [none EXCEPT !.err = "TypeError", !.stack = pop(stk)]
        ELSE IF arity > fv.v.arity
        THEN [none EXCEPT !.err = "CallError", !.stack = ca.stack]
        ELSE IF arity < fv.v.arity
        THEN [none EXCEPT !.kind = "partial",
                          !.stack = push(ca.stack, FnV(apply(fv.v, ca.args)))]
        ELSE IF fv.v.body.kind = "Bytecode"
        THEN [none EXCEPT !.kind = "bytecode", !.stack = ca.stack,
                          !.args = ca.args, !.code = fv.v.body.code]
        ELSE LET r == native_call(fv.v.body.name, reverse(ca.args))
             IN  IF r.err = ""
                 THEN [none EXCEPT !.kind = "native",
                                   !.stack = push(ca.stack, r.val)]
                 ELSE [none EXCEPT !.err = r.err, !.stack = ca.stack]

\* valid_tail_call without the comparison of the bytecode with the frame's
valid_tail_call_any_body(arity, frame, stk) ==
    LET fv == top(stk)
    IN  IF fv.tag # "Fn" THEN "TypeError"
        ELSE IF fv.v.body.kind = "Bytecode" /\ fv.v.arity # arity
        THEN "TailCallError"
        ELSE IF fv.v.body.kind = "Native" THEN "TailCallError"
        ELSE ""

\* valid_tail_call, on the stack with the callee on top: its error or ""
valid_tail_call(arity, frame, stk) ==
    LET fv == top(stk)
    IN  IF fv.tag # "Fn" THEN "TypeError"
        ELSE IF fv.v.body.kind = "Bytecode" /\ fv.v.arity # arity
        THEN "TailCallError"
        ELSE IF fv.v.body.kind = "Bytecode" /\ fv.v.body.code # frame
        THEN "TailCallError"
        ELSE IF fv.v.body.kind = "Native" THEN "TailCallError"
        ELSE ""

(***************************************************************************)
(* Frames: one per active invocation of run.  bytecode, ip, try_stack and  *)
(* frame_locals are run's parameters and locals.  The other three fields   *)
(* only record what the VM's state was when the call was made, for the     *)
(* properties below; no step reads them.                                   *)
(***************************************************************************)
Frame(code, call_used, call_len, entry_len) ==
    [bytecode |-> code, ip |-> 0, try_stack |-> <<>>, frame_locals |-> 0,
     call_used_locals |-> call_used, call_stack_len |-> call_len,
     entry_stack_len |-> entry_len]

cur == frames[Len(frames)]
callers == SubSeq(frames, 1, Len(frames) - 1)
CurOp == cur.bytecode[cur.ip + 1]
AtOp(names) ==
    /\ pc = "run" /\ frames # <<>>
    /\ cur.ip < Len(cur.bytecode)
    /\ CurOp.op \in names

\* what the last step did; kind is the symbol of the last error raised
Ev(type) ==
    [type |-> type, kind |-> ev.kind, n |-> 0, arity |-> 0,
     call_used_locals |-> 0, unwound |-> 0]

\* an Err arriving as `res` in the loop of the top frame of fs: a frame with
\* an empty try_stack returns it to its caller (call_bytecode's and call's
\* `?`), the first frame with a handler pops it and resumes after it
\* unwind that aborts the run when the failing frame has no handler
unwind_own_frame(fs) ==
    IF fs = <<>> THEN <<>>
    ELSE LET f == fs[Len(fs)]
         IN  IF f.try_stack = <<>>
             THEN <<>>
             ELSE [fs EXCEPT ![Len(fs)].try_stack = pop(f.try_stack),
                             ![Len(fs)].ip = top(f.try_stack) + 1]

RECURSIVE unwind(_)
unwind(fs) ==
    IF fs = <<>> THEN <<>>
    ELSE LET f == fs[Len(fs)]
         IN  IF f.try_stack = <<>>
             THEN unwind(SubSeq(fs, 1, Len(fs) - 1))
             ELSE [fs EXCEPT ![Len(fs)].try_stack = pop(f.try_stack),
                             ![Len(fs)].ip = top(f.try_stack) + 1]

\* a Rust panic ends the process
Panic ==
    /\ pc' = "exit" /\ exit_code' = 101 /\ frames' = <<>>
    /\ result' = "panic" /\ ev' = Ev("panic")
    /\ UNCHANGED <<file, line, stack, locals, used_locals, constants, globals>>

\* the loop goes on in the frames fs
Continue(stk, loc, used, glob, fs, e) ==
    IF Len(stk) > STACK_SIZE THEN Panic
    ELSE /\ stack' = stk /\ locals' = loc /\ used_locals' = used
         /\ globals' = glob /\ frames' = fs /\ ev' = e
         /\ UNCHANGED <<pc, file, line, constants, result, exit_code>>

\* Err(kind) is `res` in the loop of the top frame of fs
Raise(kind, stk, loc, used, glob, fs) ==
    LET fs2 == unwind(fs)
        gone == Len(frames) - Len(fs2)
    IN  /\ frames' = fs2
        /\ stack' = IF fs2 = <<>> THEN stk ELSE push(stk, Sym(kind))
        /\ pc' = IF fs2 = <<>> THEN "ran" ELSE pc
        /\ result' = IF fs2 = <<>> THEN kind ELSE result
        /\ locals' = loc /\ used_locals' = used /\ globals' = glob
        /\ ev' = [Ev("raise") EXCEPT
                    !.kind = kind, !.unwound = gone,
                    !.call_used_locals =
                        IF gone > 0 /\ fs2 # <<>>
                        THEN frames[Len(fs2) + 1].call_used_locals ELSE 0]
        /\ UNCHANGED <<file, line, constants, exit_code>>

Advance(fs) == [fs EXCEPT ![Len(fs)].ip = @ + 1]
Goto(fs, target) == [fs EXCEPT ![Len(fs)].ip = target]

\* OpCode::Try(offset)
OpTry ==
    /\ AtOp({"Try"})
    /\ Continue(stack, locals, used_locals, globals,
                Advance([frames EXCEPT ![Len(frames)].try_stack =
                                            Append(@, CurOp.i)]),
                Ev("try"))

\* OpCode::EndTry (Vec::pop of an empty try_stack does nothing)
OpEndTry ==
    /\ AtOp({"EndTry"})
    /\ Continue(stack, locals, used_locals, globals,
                Advance([frames EXCEPT ![Len(frames)].try_stack =
                            IF @ = <<>> THEN @ ELSE pop(@)]),
                Ev("endtry"))

\* OpCode::Jmp(offset)
OpJmp ==
    /\ AtOp({"Jmp"})
    /\ Continue(stack, locals, used_locals, globals,
                Goto(frames, CurOp.i), Ev("jmp"))

\* OpCode::Jmf(offset)
OpJmf ==
    /\ AtOp({"Jmf"})
    /\ Continue(pop(stack), locals, used_locals, globals,
                IF ~to_bool(top(stack)) THEN Goto(frames, CurOp.i)
                ELSE Advance(frames),
                Ev("jmf"))

\* OpCode::TCall(arity): self.valid_tail_call(arity, bytecode)? returns the
\* error from run itself, whatever try_stack holds
OpTCall ==
    /\ AtOp({"TCall"})
    /\ LET err == valid_tail_call(CurOp.i, cur.bytecode, stack)
       IN  IF err = ""
           THEN Continue(pop(stack), locals, used_locals, globals,
                         Goto(frames, 0), Ev("tcall"))
           ELSE Raise(err, pop(stack), locals, used_locals, globals, callers)

\* OpCode::Call(arity): call, call_args, call_bytecode, call_native
OpCall ==
    /\ AtOp({"Call"})
    /\ LET r == call(CurOp.i, stack)
       IN  CASE r.kind = "err" ->
                    Raise(r.err, r.stack, locals, used_locals, globals, frames)
             [] r.kind = "partial" ->
                    Continue(r.stack, locals, used_locals, globals,
                             Advance(frames),
                             [Ev("partial") EXCEPT
                                !.n = CurOp.i, !.arity = top(stack).v.arity])
             [] r.kind = "native" ->
                    Continue(r.stack, locals, used_locals, globals,
                             Advance(frames), Ev("native"))
             [] r.kind = "bytecode" ->
                    Continue(r.stack \o r.args, locals, used_locals + 1, globals,
                             Append(frames,
                                    Frame(r.code, used_locals,
                                          Len(stack) - 1 - CurOp.i,
                                          Len(r.stack \o r.args))),
                             Ev("call"))

\* every other opcode: run_op, then the loop's handling of its result
RunOp ==
    /\ AtOp({"Nop", "Push", "Pop", "Dup", "Rev", "Add", "Sub", "Mul", "Div",
             "Rem", "BitAnd", "BitOr", "Xor", "Shl", "Shr", "Eq", "Less",
             "LessEq", "Not", "Neg", "Load", "Save", "Drop", "Loag", "Savg",
             "Prep", "New", "Get", "Type", "Ref"})
    /\ LET r == run_op(CurOp, stack, locals, used_locals, cur.frame_locals,
                       globals, constants)
           fs == [frames EXCEPT ![Len(frames)].frame_locals = r.frame_locals]
       IN  CASE r.err = "" ->
                    Continue(r.stack, r.locals, r.used_locals, r.globals,
                             Advance(fs), Ev("op"))
             [] r.err = "panic" -> Panic
             [] OTHER ->
                    Raise(r.err, r.stack, r.locals, r.used_locals, r.globals, fs)

\* the loop ends (ip >= bytecode.len()): self.used_locals -= frame_locals and
\* Ok(()); in call_bytecode the caller then does self.used_locals -= 1
Return ==
    /\ pc = "run" /\ frames # <<>>
    /\ cur.ip >= Len(cur.bytecode)
    /\ IF Len(frames) = 1
       THEN /\ pc' = "ran" /\ result' = "Ok" /\ frames' = <<>>
            /\ used_locals' = used_locals - cur.frame_locals
            /\ ev' = Ev("ran")
            /\ UNCHANGED <<file, line, stack, locals, constants, globals,
                           exit_code>>
       ELSE Continue(stack, locals, used_locals - cur.frame_locals - 1,
                     globals, Advance(callers),
                     [Ev("return") EXCEPT
                        !.call_used_locals = cur.call_used_locals])

(***************************************************************************)
(* The files given to the evaluator.  A file is missing, empty, not        *)
(* parsable, or holds one of the programs below; fam, a, b and c select    *)
(* the program.                                                            *)
(***************************************************************************)
File(state, fam, a, b, c) ==
    [state |-> state, fam |-> fam, a |-> a, b |-> b, c |-> c]

num(n) == ELit(Num(n))
call_(callee, args) == EApp(callee, args, FALSE)
become_(callee, args) == EApp(callee, args, TRUE)

\* fam "loop": a function that ends in a tail call, and let r = loop N
\* (let r = loop N 0 for the functions of two parameters), with N = b.
\*  a = 0  def loop n acc = if n == 0 then acc else => loop (n - 1) (acc + n)
\*  a = 1  def loop n = n == 0 or => loop (n - 1)
\*  a = 2  def loop n acc = if n == 0 then acc else => loop (n - 1)
\*  a = 3  def loop n = if n == 0 then 0 else => other (n - 1)
\*  a = 4  def loop n = if n == 0 then 0 else => println n
\*  a = 5  def loop n = if n == 0 then 0 else => 5 n
\*  a = 6  def loop n = try (if n == 0 then nope else => loop (n - 1))
\*                      rescue e => e
LoopVariants == 0..6
n_is_0 == EBinary(EVar("n"), "Eq", num(0))
n_minus_1 == EBinary(EVar("n"), "Sub", num(1))
LoopProgram(a, N) ==
    CASE a = 0 ->
            <<SDef("loop", ELambda(<<"n", "acc">>,
                EIf(n_is_0, EVar("acc"),
                    become_(EVar("loop"),
                            <<n_minus_1, EBinary(EVar("acc"), "Add", EVar("n"))>>)))),
              SLet("r", call_(EVar("loop"), <<num(N), num(0)>>))>>
      [] a = 1 ->
            <<SDef("loop", ELambda(<<"n">>,
                EBinary(n_is_0, "Or", become_(EVar("loop"), <<n_minus_1>>)))),
              SLet("r", call_(EVar("loop"), <<num(N)>>))>>
      [] a = 2 ->
            <<SDef("loop", ELambda(<<"n", "acc">>,
                EIf(n_is_0, EVar("acc"), become_(EVar("loop"), <<n_minus_1>>)))),
              SLet("r", call_(EVar("loop"), <<num(N), num(0)>>))>>
      [] a = 3 ->
            <<SDef("other", ELambda(<<"n">>, EVar("n"))),
              SDef("loop", ELambda(<<"n">>,
                EIf(n_is_0, num(0), become_(EVar("other"), <<n_minus_1>>)))),
              SLet("r", call_(EVar("loop"), <<num(N)>>))>>
      [] a = 4 ->
            <<SDef("loop", ELambda(<<"n">>,
                EIf(n_is_0, num(0), become_(EVar("println"), <<EVar("n")>>)))),
              SLet("r", call_(EVar("loop"), <<num(N)>>))>>
      [] a = 5 ->
            <<SDef("loop", ELambda(<<"n">>,
                EIf(n_is_0, num(0), become_(num(5), <<EVar("n")>>)))),
              SLet("r", call_(EVar("loop"), <<num(N)>>))>>
      [] a = 6 ->
            <<SDef("loop", ELambda(<<"n">>,
                ETry(EIf(n_is_0, EVar("nope"),
                         become_(EVar("loop"), <<n_minus_1>>)),
                     "e", EVar("e")))),
              SLet("r", call_(EVar("loop"), <<num(N)>>))>>

\* fam "try": let r = try body rescue x => x, where b selects the body
\*  b = 0  1 + 2
\*  b = 1  (1 + "a") + 2
\*  b = 2  nope + 2
\*  b = 3  ((fn q = q) 1 2) + 2
\*  b = 4  (=> println 1) + 2
\*  b = 5  ((fn q = q + "s") 1) + 2
\*  b = 6  ((fn q = try (q + "s") rescue z => 7) 1) + 2
\*  b = 7  ((fn q = try (=> println q) rescue z => 7) 1) + 2
\*  b = 8  1 / 0
\*  b = 9  2 + nope
\*  b = 10 ((fn q = try (q + "s") rescue z => 7) 1) + nope
\* and a the place of the try and the name x
\*  a = 0  let r = try body rescue e => e
\*  a = 1  let r = (fn p = try body rescue e => e) 7
\*  a = 2  let r = (fn e = try body rescue e => e) 7
\*  a = 3  let r = body, in no try
\*  a = 4  let r = try ((try body rescue e => e) + 2) rescue z => 0
TryBodies == 0..10
TryPlaces == 0..4
plus_2(e) == EBinary(e, "Add", num(2))
q_plus_s == EBinary(EVar("q"), "Add", ELit(Str("s")))
TryBody(b) ==
    CASE b = 0 -> plus_2(num(1))
      [] b = 1 -> plus_2(EBinary(num(1), "Add", ELit(Str("a"))))
      [] b = 2 -> plus_2(EVar("nope"))
      [] b = 3 -> plus_2(call_(ELambda(<<"q">>, EVar("q")), <<num(1), num(2)>>))
      [] b = 4 -> plus_2(become_(EVar("println"), <<num(1)>>))
      [] b = 5 -> plus_2(call_(ELambda(<<"q">>, q_plus_s), <<num(1)>>))
      [] b = 6 -> plus_2(call_(ELambda(<<"q">>, ETry(q_plus_s, "z", num(7))),
                               <<num(1)>>))
      [] b = 7 -> plus_2(call_(ELambda(<<"q">>,
                                   ETry(become_(EVar("println"), <<EVar("q")>>),
                                        "z", num(7))),
                               <<num(1)>>))
      [] b = 8 -> EBinary(num(1), "Div", num(0))
      [] b = 9 -> EBinary(num(2), "Add", EVar("nope"))
      [] b = 10 -> EBinary(call_(ELambda(<<"q">>, ETry(q_plus_s, "z", num(7))),
                                 <<num(1)>>),
                           "Add", EVar("nope"))
TryProgram(a, b) ==
    LET t == ETry(TryBody(b), "e", EVar("e"))
    IN  CASE a = 0 -> <<SLet("r", t)>>
          [] a = 1 -> <<SLet("r", call_(ELambda(<<"p">>, t), <<num(7)>>))>>
          [] a = 2 -> <<SLet("r", call_(ELambda(<<"e">>, t), <<num(7)>>))>>
          [] a = 3 -> <<SLet("r", TryBody(b))>>
          [] a = 4 -> <<SLet("r", ETry(plus_2(t), "z", num(0)))>>

\* fam "app": def f p1 .. pk = (..(p1 * 10 + p2) * 10 ..) + pk, with k = a,
\* applied to the literals 1, 2, ..: first to b of them, then (when b < k)
\* to c more, then to the rest; the file ends with let r = 1000 + that
param(i) == <<"p1", "p2", "p3", "p4", "p5">>[i]
RECURSIVE digits(_)
digits(k) ==
    IF k = 1 THEN EVar(param(1))
    ELSE EBinary(EBinary(digits(k - 1), "Mul", num(10)), "Add", EVar(param(k)))
literals(from, to) == [i \in 1..(to - from + 1) |-> num(from + i - 1)]
AppProgram(k, b, c) ==
    LET f == ELambda([i \in 1..k |-> param(i)], digits(k))
        first == call_(EVar("f"), literals(1, b))
        second == call_(first, literals(b + 1, b + c))
        third == call_(second, literals(b + c + 1, k))
        whole == IF b >= k THEN first ELSE IF b + c >= k THEN second ELSE third
    IN  <<SDef("f", f), SLet("r", EBinary(num(1000), "Add", whole))>>

\* fam "scope": where a reference to p is resolved
\*  a = 0  let r = (fn p = p) 7
\*  a = 1  let r = (fn p = (fn q = p) 1) 7
\*  a = 2  let p = 5 and then let r = (fn p = (fn q = p) 1) 7
\*  a = 3  let r = (fn p = (fn q = q) 1) 7
ScopeVariants == 0..3
ScopeProgram(a) ==
    LET inner(name) == call_(ELambda(<<"q">>, EVar(name)), <<num(1)>>)
        outer(body) == SLet("r", call_(ELambda(<<"p">>, body), <<num(7)>>))
    IN  CASE a = 0 -> <<outer(EVar("p"))>>
          [] a = 1 -> <<outer(inner("p"))>>
          [] a = 2 -> <<SLet("p", num(5)), outer(inner("p"))>>
          [] a = 3 -> <<outer(inner("q"))>>

\* fam "let": an expression-form let of x, then a reference to x
\*  a = 0  let r = do let x = 5; x end
\*  a = 1  let r = do let x = 5; let x = 6; x end
\*  a = 2  let r = (fn x = do let x = 6; x end) 7
\*  a = 3  let r = (fn p = do let x = 6; x + p end) 7
\*  a = 4  let r = (let x = 5)
\*  a = 5  let r = (fn p = do let x = 6; let y = 1; x + y + p end) 7
LetVariants == 0..5
let_x(n) == ELet("x", num(n))
LetProgram(a) ==
    LET in_fn(name, body) == call_(ELambda(<<name>>, EDo(body)), <<num(7)>>)
        x_plus_p == EBinary(EVar("x"), "Add", EVar("p"))
    IN  CASE a = 0 -> <<SLet("r", EDo(<<let_x(5), EVar("x")>>))>>
          [] a = 1 -> <<SLet("r", EDo(<<let_x(5), let_x(6), EVar("x")>>))>>
          [] a = 2 -> <<SLet("r", in_fn("x", <<let_x(6), EVar("x")>>))>>
          [] a = 3 -> <<SLet("r", in_fn("p", <<let_x(6), x_plus_p>>))>>
          [] a = 4 -> <<SLet("r", let_x(5))>>
          [] a = 5 -> <<SLet("r", in_fn("p",
                            <<let_x(6), ELet("y", num(1)),
                              EBinary(EBinary(EVar("x"), "Add", EVar("y")),
                                      "Add", EVar("p"))>>))>>

\* fam "logic": let r = A or B (a = 0) and let r = A and B (a = 1), with
\* A = LogicOperands[b] and B = LogicOperands[c]; nope is bound nowhere
LogicOps == <<"Or", "And">>
LogicOperands ==
    <<num(0), num(5), ELit(Str("")), ELit(Str("s")), ELit(Nil),
      ELit(Bool(TRUE)), ELit(Bool(FALSE)), ELit(Sym("ok")), EVar("nope")>>
LogicProgram(a, b, c) ==
    <<SLet("r", EBinary(LogicOperands[b], LogicOps[a + 1], LogicOperands[c]))>>

\* fam "if": let r = if C then T else E, with C = IfConditions[a], T the
\* literal 1 (b = 0) or the unbound name nope (b = 1), E the literal 2
\* (c = 0) or nope (c = 1)
IfConditions ==
    <<num(0), num(5), ELit(Str("")), ELit(Str("s")), ELit(Nil),
      ELit(Bool(TRUE)), ELit(Bool(FALSE)), ELit(Sym("ok")), EList(<<>>),
      EList(<<num(0)>>)>>
IfProgram(a, b, c) ==
    <<SLet("r", EIf(IfConditions[a],
                    IF b = 0 THEN num(1) ELSE EVar("nope"),
                    IF c = 0 THEN num(2) ELSE EVar("nope")))>>

\* fam "nest": jumps and handlers inside one another
\*  a = 0  let r = if (if true then false else true)
\*                 then (when 1 | 1 => 2 | 2 => 3 | _ => 4)
\*                 else (try nope rescue e => if e then 1 else 2)
\*  a = 1  def f n = (when n | 0 => (try nope rescue e => 1) | w => w + 1)
\*                   and (n or 3)
\*         let r = f 1
\*  a = 2  type T = with def m self n = if n then (try self rescue e => e)
\*                                       else (when n | 0 => 1) end
\*         let r = T.m 0
\*  a = 3  let r = do 1; (if true then 1 else 2) end
\*  a = 4  let r = when 3 | 1 => 2
NestVariants == 0..4
NestProgram(a) ==
    LET if_e == EIf(EVar("e"), num(1), num(2))
        when_1 == EWhen(num(1),
                        <<WhenArm(num(1), num(2)), WhenArm(num(2), num(3))>>,
                        WildCard("", num(4)))
        when_n == EWhen(EVar("n"),
                        <<WhenArm(num(0), ETry(EVar("nope"), "e", num(1)))>>,
                        WildCard("w", EBinary(EVar("w"), "Add", num(1))))
        m_body == EIf(EVar("n"), ETry(EVar("self"), "e", EVar("e")),
                      EWhen(EVar("n"), <<WhenArm(num(0), num(1))>>, NoWildCard))
    IN  CASE a = 0 ->
                <<SLet("r", EIf(EIf(ELit(Bool(TRUE)), ELit(Bool(FALSE)),
                                    ELit(Bool(TRUE))),
                                when_1, ETry(EVar("nope"), "e", if_e)))>>
          [] a = 1 ->
                <<SDef("f", ELambda(<<"n">>,
                        EBinary(when_n, "And",
                                EBinary(EVar("n"), "Or", num(3))))),
                  SLet("r", call_(EVar("f"), <<num(1)>>))>>
          [] a = 2 ->
                <<SClass("T", <<SDef("m", ELambda(<<"self", "n">>, m_body))>>,
                         <<>>),
                  SLet("r", EInvoke(EVar("T"), "m", <<num(0)>>))>>
          [] a = 3 ->
                <<SLet("r", EDo(<<num(1),
                                  EIf(ELit(Bool(TRUE)), num(1), num(2))>>))>>
          [] a = 4 ->
                <<SLet("r", EWhen(num(3), <<WhenArm(num(1), num(2))>>,
                                  NoWildCard))>>

\* fam "when": let r = when S arms wildcard, with the scrutinee S = a (1, 2
\* or 3), the arms
\*  c = 0  | 1 => 10 | 2 => 20
\*  c = 1  | 1 => 10 | nope => nope
\*  c = 2  | 1 => 10 | 1 => 20
\*  c = 3  (none)
\* and the wildcard
\*  b = 0  (none)
\*  b = 1  | _ => 40
\*  b = 2  | w => w + 100
WhenScrutinees == 1..3
WhenWildCards == 0..2
WhenArmLists == 0..3
WhenArms(c) ==
    CASE c = 0 -> <<WhenArm(num(1), num(10)), WhenArm(num(2), num(20))>>
      [] c = 1 -> <<WhenArm(num(1), num(10)),
                    WhenArm(EVar("nope"), EVar("nope"))>>
      [] c = 2 -> <<WhenArm(num(1), num(10)), WhenArm(num(1), num(20))>>
      [] c = 3 -> <<>>
WhenProgram(a, b, c) ==
    <<SLet("r",
        EWhen(num(a), WhenArms(c),
              CASE b = 0 -> NoWildCard
                [] b = 1 -> WildCard("", num(40))
                [] b = 2 -> WildCard("w", EBinary(EVar("w"), "Add",
                                                  num(100)))))>>

\* fam "do": let r = if C then 0 else 7 + do e1; ..; ea end, with the
\* sub-expressions the literals 1, .., a (none when a = 0); C is true when
\* the block is empty, which has no value to add, and false otherwise
DoLengths == 0..2
DoProgram(a) ==
    <<SLet("r", EIf(ELit(Bool(a = 0)), num(0),
                    EBinary(num(7), "Add", EDo([i \in 1..a |-> num(i)]))))>>

\* fam "list": list literals and conses
\*  a = 0  let r = []
\*  a = 1  let r = [1, 2, 3]
\*  a = 2  let r = [1, 1, 1]
\*  a = 3  let r = 0 :: [1, 2]
\*  a = 4  let r = 1 :: 2 :: []
\*  a = 5  let r = [[1, 2], [], "s" :: []]
\*  a = 6  let r = 1 :: 2
ListVariants == 0..6
ListProgram(a) ==
    <<SLet("r",
        CASE a = 0 -> EList(<<>>)
          [] a = 1 -> EList(<<num(1), num(2), num(3)>>)
          [] a = 2 -> EList(<<num(1), num(1), num(1)>>)
          [] a = 3 -> ECons(num(0), EList(<<num(1), num(2)>>))
          [] a = 4 -> ECons(num(1), ECons(num(2), EList(<<>>)))
          [] a = 5 -> EList(<<EList(<<num(1), num(2)>>), EList(<<>>),
                              ECons(ELit(Str("s")), EList(<<>>))>>)
          [] a = 6 -> ECons(num(1), num(2)))>>

\* fam "invoke": type T x with def m self p1 .. pn = body end, an object o
\* and let r = o.m 1 .. n, with n = a.  The body is
\*  b = 0  self.x * 100 + ((p1 * 10 + p2) * 10 .. + pn)   (self.x * 100 for
\*         n = 0)
\*  b = 1  self
\* and the object
\*  c = 0  let o = new T 5
\*  c = 1  let o = T (the type itself; b = 1 only)
InvokeArities == 0..2
InvokeProgram(n, b, c) ==
    LET x100 == EBinary(EField(EVar("self"), "x"), "Mul", num(100))
        body == IF b = 1 THEN EVar("self")
                ELSE IF n = 0 THEN x100
                ELSE EBinary(x100, "Add", digits(n))
        m == ELambda(<<"self">> \o [i \in 1..n |-> param(i)], body)
    IN  <<SClass("T", <<SDef("m", m)>>, <<"x">>),
          SLet("o", IF c = 0 THEN ENew(EVar("T"), <<num(5)>>) ELSE EVar("T")),
          SLet("r", EInvoke(EVar("o"), "m", literals(1, n)))>>

\* fam "frames": a local y of the caller, a Call, and y read after it
\*  a = 0  let r = do let y = 2; (fn q = q) 9; y end
\*  a = 1  let r = do (try 1 rescue e => e); let y = 2; (fn q = q) 9; y end
\*  a = 2  let r = (fn p = do (if p then 0 else (let x = 1)); let y = 2;
\*                           (fn q = q) 9; y end) 7
\*  a = 3  let r = do (when 1 | 1 => 0 | w => w); let y = 2; (fn q = q) 9;
\*                   y end
\*  a = 4  let r = (fn p = do let x = 1; let y = 2; (fn q = q) 9; y end) 7
\*  a = 5  let r = (fn p = do (if p then (let x = 1) else 0); let y = 2;
\*                           (fn q = q) 9; y end) 7
FrameVariants == 0..5
FrameProgram(a) ==
    LET rest == <<ELet("y", num(2)), call_(ELambda(<<"q">>, EVar("q")), <<num(9)>>),
                  EVar("y")>>
        in_fn(body) == call_(ELambda(<<"p">>, EDo(body)), <<num(7)>>)
        let_x1 == ELet("x", num(1))
    IN  <<SLet("r",
            CASE a = 0 -> EDo(rest)
              [] a = 1 -> EDo(<<ETry(num(1), "e", EVar("e"))>> \o rest)
              [] a = 2 -> in_fn(<<EIf(EVar("p"), num(0), let_x1)>> \o rest)
              [] a = 3 -> EDo(<<EWhen(num(1), <<WhenArm(num(1), num(0))>>,
                                      WildCard("w", EVar("w")))>> \o rest)
              [] a = 4 -> in_fn(<<let_x1>> \o rest)
              [] a = 5 -> in_fn(<<EIf(EVar("p"), let_x1, num(0))>> \o rest))>>

(***************************************************************************)
(* The lines given to the REPL.  A line is a let statement, an expression, *)
(* an empty line or a line that does not parse.                            *)
(***************************************************************************)
LetLine(name, value) == [kind |-> "let", stmts |-> <<SLet(name, value)>>]
ExprLine(e) == [kind |-> "expr", expr |-> e]
EmptyLine == [kind |-> "empty"]
BadLine == [kind |-> "unparsable"]

\* fam "session": the lines of one REPL session
\*  a = 0  let p = 5 / p / let r = p + 1
\*  a = 1  let f = fn x = x + 10 / let r = f 1
\*  a = 2  let f = fn x = x + 10 / (empty) / let r = 1 + f 1
\*  a = 3  let f = fn x = x + 10 / let r = f nope
\*  a = 4  let p = 5 / let p = "s" / (unparsable) / let r = p
\*  a = 5  let f = fn x = [x, 10] / let r = f "s"
\*  a = 6  let f = fn x = -x / let r = f "s" / let r = f 1
Sessions == 0..6
ReplLines(f) ==
    LET x_plus_10 == ELambda(<<"x">>, EBinary(EVar("x"), "Add", num(10)))
        f_1 == call_(EVar("f"), <<num(1)>>)
    IN  CASE f.a = 0 ->
                <<LetLine("p", num(5)), ExprLine(EVar("p")),
                  LetLine("r", EBinary(EVar("p"), "Add", num(1)))>>
          [] f.a = 1 -> <<LetLine("f", x_plus_10), LetLine("r", f_1)>>
          [] f.a = 2 ->
                <<LetLine("f", x_plus_10), EmptyLine,
                  LetLine("r", EBinary(num(1), "Add", f_1))>>
          [] f.a = 3 ->
                <<LetLine("f", x_plus_10),
                  LetLine("r", call_(EVar("f"), <<EVar("nope")>>))>>
          [] f.a = 4 ->
                <<LetLine("p", num(5)), LetLine("p", ELit(Str("s"))), BadLine,
                  LetLine("r", EVar("p"))>>
          [] f.a = 5 ->
                <<LetLine("f", ELambda(<<"x">>, EList(<<EVar("x"), num(10)>>))),
                  LetLine("r", call_(EVar("f"), <<ELit(Str("s"))>>))>>
          [] f.a = 6 ->
                <<LetLine("f", ELambda(<<"x">>, EUnOp("Neg", EVar("x")))),
                  LetLine("r", call_(EVar("f"), <<ELit(Str("s"))>>)),
                  LetLine("r", f_1)>>

(***************************************************************************)
(* Instruction vectors run directly, as byte_code_debug runs one: the      *)
(* constants are set and the vector is given to run.                       *)
(***************************************************************************)
\* the operands of the binary opcodes
Operands ==
    <<Num(-4), Num(0), Num(2), Num(8), Rat(1, 2), NaN, Str("ab"), Str(""),
      Bool(TRUE), Nil, Sym("ok")>>
BinOps ==
    <<"Add", "Sub", "Mul", "Div", "Rem", "BitAnd", "BitOr", "Xor", "Shl",
      "Shr", "Less", "LessEq">>
\* the values Jmf is given
Conditions ==
    <<Nil, Bool(FALSE), Bool(TRUE), Num(0), Num(-4), Rat(1, 2), NaN, Str(""),
      Str("ab"), List(<<>>), List(<<Num(0)>>), Sym("ok"),
      FnV(NativeFn("println", 1)), FnV(BytecodeFn(<<>>, 0)),
      Type(YexType("T", NoFields, <<>>)),
      Instance([ty |-> YexType("T", NoFields, <<>>), fields |-> NoFields]),
      Tuple(<<>>), Tuple(<<Nil>>), Table("t")>>

\* fam "binop": Push l; Push r; op, with op = BinOps[a], l = Operands[b] and
\* r = Operands[c]
\* fam "jmf": Push v; Jmf 4; Push 1; Jmp 5; Push 2, with v = Conditions[a]
Bytecode(f) ==
    CASE f.fam = "binop" ->
            [opcodes |-> <<OpN("Push", 0), OpN("Push", 1), Op0(BinOps[f.a])>>,
             constants |-> <<Operands[f.b], Operands[f.c]>>]
      [] f.fam = "jmf" ->
            [opcodes |-> <<OpN("Push", 0), OpN("Jmf", 4), OpN("Push", 1),
                           OpN("Jmp", 5), OpN("Push", 2)>>,
             constants |-> <<Conditions[f.a], Num(1), Num(2)>>]

Files ==
    {File(s, "", 0, 0, 0) : s \in {"missing", "empty", "unparsable"}}
    \cup {File("repl", "session", a, 0, 0) : a \in Sessions}
    \cup {File("ok", "if", a, b, c) :
                a \in 1..Len(IfConditions), b \in 0..1, c \in 0..1}
    \cup {File("ok", "nest", a, 0, 0) : a \in NestVariants}
    \cup {File("ok", "do", a, 0, 0) : a \in DoLengths}
    \cup {File("ok", "when", a, b, c) :
                a \in WhenScrutinees, b \in WhenWildCards, c \in WhenArmLists}
    \cup {File("ok", "list", a, 0, 0) : a \in ListVariants}
    \cup {File("ok", "invoke", n, b, 0) : n \in InvokeArities, b \in 0..1}
    \cup {File("ok", "invoke", n, 1, 1) : n \in InvokeArities}
    \cup {File("ok", "frames", a, 0, 0) : a \in FrameVariants}
    \cup {File("ok", "scope", a, 0, 0) : a \in ScopeVariants}
    \cup {File("ok", "let", a, 0, 0) : a \in LetVariants}
    \cup {File("ok", "logic", a, b, c) :
                a \in 0..1, b \in 1..Len(LogicOperands),
                c \in 1..Len(LogicOperands)}
    \cup {File("bytecode", "binop", a, b, c) :
                a \in 1..Len(BinOps), b \in 1..Len(Operands),
                c \in 1..Len(Operands)}
    \cup {File("bytecode", "jmf", a, 0, 0) : a \in 1..Len(Conditions)}
    \cup {File("ok", "loop", a, N, 0) : a \in LoopVariants, N \in 0..MaxIter}
    \cup {File("ok", "try", a, b, 0) : a \in TryPlaces, b \in TryBodies}
    \cup {File("ok", "app", k, k, 0) : k \in 1..MaxArity}
    \cup {File("ok", "app", k, k + 1, 0) : k \in 1..MaxArity}
    \cup {f \in {File("ok", "app", k, b, c) :
                    k \in 1..MaxArity, b \in 1..MaxArity, c \in 1..MaxArity} :
            f.b + f.c <= f.a}

\* the statements the parser returns for a file that parses
Program(f) ==
    CASE f.fam = "loop" -> LoopProgram(f.a, f.b)
      [] f.fam = "try" -> TryProgram(f.a, f.b)
      [] f.fam = "app" -> AppProgram(f.a, f.b, f.c)
      [] f.fam = "scope" -> ScopeProgram(f.a)
      [] f.fam = "let" -> LetProgram(f.a)
      [] f.fam = "logic" -> LogicProgram(f.a, f.b, f.c)
      [] f.fam = "if" -> IfProgram(f.a, f.b, f.c)
      [] f.fam = "nest" -> NestProgram(f.a)
      [] f.fam = "do" -> DoProgram(f.a)
      [] f.fam = "when" -> WhenProgram(f.a, f.b, f.c)
      [] f.fam = "list" -> ListProgram(f.a)
      [] f.fam = "invoke" -> InvokeProgram(f.a, f.b, f.c)
      [] f.fam = "frames" -> FrameProgram(f.a)

\* front::compile
compile(f) == compile_stmts(Program(f))

(***************************************************************************)
(* The file evaluator (yex/src/main.rs, main and eval_file).               *)
(***************************************************************************)
\* VirtualMachine::default() and the file main was given
Init ==
    /\ pc = "start"
    /\ file \in Files
    /\ line = 0
    /\ stack = <<>>
    /\ locals = <<>>
    /\ used_locals = 0
    /\ constants = <<>>
    /\ globals = prelude
    /\ frames = <<>>
    /\ result = "none"
    /\ exit_code = 0
    /\ ev = [type |-> "init", kind |-> "none", n |-> 0, arity |-> 0,
             call_used_locals |-> 0, unwound |-> 0]

\* eval_file up to vm.run(bytecode): a missing file is exit(1), an empty one
\* Ok(0), a parse error Err(e), which main turns into exit(1)
EvalFile ==
    /\ pc = "start" /\ file.state \notin {"bytecode", "repl"}
    /\ IF file.state = "ok"
       THEN LET out == compile(file)
            IN  /\ constants' = out.constants
                /\ frames' = <<Frame(out.opcodes, 0, 0, 0)>>
                /\ pc' = "run"
                /\ ev' = Ev("run")
                /\ UNCHANGED <<exit_code, result>>
       ELSE /\ pc' = "exit"
            /\ exit_code' = IF file.state = "empty" THEN 0 ELSE 1
            /\ result' = file.state
            /\ ev' = Ev("exit")
            /\ UNCHANGED <<constants, frames>>
    /\ UNCHANGED <<file, line, stack, locals, used_locals, globals>>

\* eval_file after vm.run(bytecode): an Err is printed, and Ok(0) returned
\* either way; main exits with it
EvalFileExit ==
    /\ pc = "ran" /\ file.state = "ok"
    /\ pc' = "exit"
    /\ exit_code' = 0
    /\ ev' = Ev("exit")
    /\ UNCHANGED <<file, line, stack, locals, used_locals, constants, globals,
                   frames, result>>

\* byte_code_debug up to vm.run(bytecode)
ByteCodeDebug ==
    /\ pc = "start" /\ file.state = "bytecode"
    /\ constants' = Bytecode(file).constants
    /\ frames' = <<Frame(Bytecode(file).opcodes, 0, 0, 0)>>
    /\ pc' = "run"
    /\ ev' = Ev("run")
    /\ UNCHANGED <<file, line, stack, locals, used_locals, globals,
                   exit_code, result>>

\* byte_code_debug after vm.run(bytecode): unwrap() panics on an Err (the
\* process ends with 101), otherwise Ok(0) is returned and main exits with it
ByteCodeDebugExit ==
    /\ pc = "ran" /\ file.state = "bytecode"
    /\ pc' = "exit"
    /\ exit_code' = IF result = "Ok" THEN 0 ELSE 101
    /\ ev' = Ev("exit")
    /\ UNCHANGED <<file, line, stack, locals, used_locals, constants, globals,
                   frames, result>>

\* start, the REPL: one turn of its loop up to vm.run(bytecode).  readline
\* fails at the end of the input and start returns 0; an empty line is
\* skipped; a line that starts with let is compiled as a file is, every
\* other line as one expression; a line that does not parse gives the empty
\* instruction vector and the empty pool.
ReplReadLine ==
    /\ pc \in {"start", "prompt"} /\ file.state = "repl"
    /\ IF line >= Len(ReplLines(file))
       THEN /\ pc' = "exit" /\ exit_code' = 0 /\ ev' = Ev("exit")
            /\ UNCHANGED <<line, constants, frames>>
       ELSE LET l == ReplLines(file)[line + 1]
                out == CASE l.kind = "let" -> compile_stmts(l.stmts)
                         [] l.kind = "expr" -> compile_expr(l.expr)
                         [] OTHER -> [opcodes |-> <<>>, constants |-> <<>>]
            IN  /\ line' = line + 1
                /\ UNCHANGED exit_code
                /\ IF l.kind = "empty"
                   THEN /\ pc' = "prompt" /\ ev' = Ev("skip")
                        /\ UNCHANGED <<constants, frames>>
                   ELSE /\ constants' = out.constants
                        /\ frames' = <<Frame(out.opcodes, used_locals,
                                             Len(stack), Len(stack))>>
                        /\ pc' = "run"
                        /\ ev' = Ev("run")
    /\ UNCHANGED <<file, stack, locals, used_locals, globals, result>>

\* the REPL after vm.run(bytecode): an Err is printed, then the value
\* pop_last gives, and vm.reset() empties the stack
ReplPrint ==
    /\ pc = "ran" /\ file.state = "repl"
    /\ pc' = "prompt"
    /\ stack' = <<>>
    /\ ev' = [Ev("print") EXCEPT !.kind = ev.kind]
    /\ UNCHANGED <<file, line, locals, used_locals, constants, globals,
                   frames, result, exit_code>>

Next ==
    \/ EvalFile
    \/ ByteCodeDebug
    \/ ByteCodeDebugExit
    \/ ReplReadLine
    \/ ReplPrint
    \/ OpTry
    \/ OpEndTry
    \/ OpJmp
    \/ OpJmf
    \/ OpTCall
    \/ OpCall
    \/ RunOp
    \/ Return
    \/ EvalFileExit

Spec == Init /\ [][Next]_vars

\* the loop of run goes on while ip < bytecode.len(): an enabled step of
\* the machine is eventually taken
RunLoop ==
    OpTry \/ OpEndTry \/ OpJmp \/ OpJmf \/ OpTCall \/ OpCall \/ RunOp \/ Return
LiveSpec == Spec /\ WF_vars(RunLoop)

(***************************************************************************)
(* Properties.                                                             *)
(***************************************************************************)
\* the error symbols run can end with
ErrorKinds ==
    {"NameError", "TypeError", "ValueError", "FieldError", "CallError",
     "TailCallError"}

\* the try bodies in which an instruction raises and no inner handler
\* catches the error
RaisingBodies == {1, 2, 3, 4, 5, 7}

\* the first local slot of the executing frame
frame_base == used_locals - cur.frame_locals

\* the executing frame runs the function stored in the global f and is at
\* its first instruction after the leading Saves
AtBodyOfF ==
    /\ pc = "run" /\ Len(frames) > 1
    /\ has_global(globals, "f")
    /\ cur.bytecode = globals["f"].v.body.code
    /\ cur.ip = globals["f"].v.arity

\* parameter i of the executing frame holds the literal i, for i in 1..k
ParamsHoldLiterals(k) ==
    \A i \in 1..k : ValEq(local_at(locals, frame_base + i - 1), Num(i))

\* the value the program bound to the global r, nil when it bound none
value_of_r == IF has_global(globals, "r") THEN globals["r"] ELSE Nil

\* the value of f applied to 1, 2, .., k
RECURSIVE digits_value(_)
digits_value(k) == IF k = 1 THEN 1 ELSE digits_value(k - 1) * 10 + k

\* C1: in `try body rescue x => x`, when an instruction of body raises an
\* error of kind K that no inner handler catches, the rest of body is not
\* executed, the rescue body is, and x holds the symbol K in it: the run
\* ends Ok with Sym(K) as the value of the try, which r is bound to.
C1_RescueBindsErrorKind ==
    (pc = "ran" /\ file.fam = "try" /\ file.a \in 0..2
                /\ file.b \in RaisingBodies)
        => (result = "Ok" /\ ValEq(value_of_r, Sym(ev.kind)))

\* C2: a run returns an error only when its handler stack is empty: a frame
\* that a raised error removes had an empty try_stack.
C2_AbortOnlyWithoutHandler ==
    [][ev'.type = "raise" =>
            \A d \in (Len(frames') + 1)..Len(frames) :
                frames[d].try_stack = <<>>]_vars

\* the step of Call(m) on a function of arity k > m: it enters no frame and
\* leaves on the stack a function of arity k - m with the same body
C3_PartialPushesFn ==
    (AtOp({"Call"}) /\ top(stack).tag = "Fn" /\ CurOp.i > 0
                    /\ CurOp.i < top(stack).v.arity)
        => /\ frames' = Advance(frames)
           /\ top(stack').tag = "Fn"
           /\ top(stack').v.arity = top(stack).v.arity - CurOp.i
           /\ top(stack').v.body = top(stack).v.body
\* f applied to the literals 1..k in two or three calls: in its body
\* parameter i holds i, and the program's value is that of the single call
C3_PartialBindsAsFull ==
    /\ (file.fam = "app" /\ file.b < file.a /\ AtBodyOfF)
            => ParamsHoldLiterals(file.a)
    /\ (file.fam = "app" /\ file.b < file.a /\ pc = "ran")
            => (result = "Ok"
                /\ ValEq(value_of_r, Num(1000 + digits_value(file.a))))
\* C3: Call(m) on a function of arity k, 0 < m < k, pushes a function of
\* arity k - m and executes no body; applying the result to the remaining
\* arguments binds every parameter to the value a single Call(k) binds it to.
C3_PartialApplication ==
    []C3_PartialBindsAsFull /\ [][C3_PartialPushesFn]_vars
C3_Witness ==
    /\ file.fam = "app" /\ file.a = MaxArity /\ file.b = 1 /\ file.c = 1
    /\ AtBodyOfF
    /\ cur.frame_locals = MaxArity

\* C4: in a function that ends each iteration in an accepted tail call to
\* itself, the operand stack has the same depth at the start (ip = 0) of
\* every iteration.
C4_TailCallStackDepth ==
    (pc = "run" /\ frames # <<>> /\ cur.ip = 0)
        => Len(stack) = cur.entry_stack_len

\* the number of Save instructions of an instruction vector
SaveCount(code) == Cardinality({i \in 1..Len(code) : code[i].op = "Save"})

\* C5: in a self-tail-recursive function the local slots in use stay within
\* a bound that does not depend on the number of iterations: frame_locals
\* within the number of Saves of the function, used_locals within that and
\* the base slot of the call.
C5_TailCallLocalsBounded ==
    (pc = "run" /\ file.fam = "loop" /\ Len(frames) = 2)
        => /\ cur.frame_locals <= SaveCount(cur.bytecode)
           /\ used_locals <= SaveCount(cur.bytecode) + 1

\* the step of TCall(n) on a function: ip = 0 in the same frame when the
\* function's body is the executing vector and its arity is n, else the
\* frame is left with TailCallError
C6_Step ==
    (AtOp({"TCall"}) /\ top(stack).tag = "Fn")
        => IF /\ top(stack).v.body.kind = "Bytecode"
              /\ top(stack).v.body.code = cur.bytecode
              /\ top(stack).v.arity = CurOp.i
           THEN /\ frames' = Goto(frames, 0)
                /\ ev'.type = "tcall"
           ELSE /\ ev'.type = "raise"
                /\ ev'.kind = "TailCallError"
                /\ Len(frames') < Len(frames)
\* C6: TCall(n) on a function sets ip to 0 in the executing frame, entering
\* no frame, exactly when the function's body is the executing instruction
\* vector and its arity is n; otherwise it fails with TailCallError.
C6_TailCallHonoured == [][C6_Step]_vars
C6_Witness ==
    /\ ev.type = "tcall" /\ pc = "run" /\ cur.ip = 0
    /\ file.fam = "loop" /\ file.a = 0

\* C7: when a lambda applied to n arguments through one Call(n) reaches the
\* first instruction after its Saves, the slot of parameter i holds argument
\* i and none of the arguments is left on the operand stack.
C7_FullApplicationBinds ==
    (file.fam = "app" /\ file.b = file.a /\ AtBodyOfF)
        => /\ ParamsHoldLiterals(file.a)
           /\ Len(stack) = cur.call_stack_len
C7_Witness ==
    /\ file.fam = "app" /\ file.a = MaxArity /\ file.b = MaxArity
    /\ AtBodyOfF
    /\ Len(stack) = 1

\* the step of Call(n) on a function of arity smaller than n
C8_Step ==
    (AtOp({"Call"}) /\ top(stack).tag = "Fn" /\ top(stack).v.arity < CurOp.i)
        => /\ ev'.type = "raise"
           /\ ev'.kind = "CallError"
           /\ Len(frames') <= Len(frames)
\* C8: Call(n) on a function of arity smaller than n fails with CallError
\* and enters no frame, so no instruction of the function's body executes.
C8_TooManyArguments == [][C8_Step]_vars
C8_Witness ==
    /\ ev.type = "raise" /\ ev.kind = "CallError"
    /\ file.fam = "app" /\ file.b > file.a

\* C9: when a Call of a bytecode function is over, by its return or by an
\* error of the callee that a handler of a caller caught, used_locals is
\* what it was just before the Call.
C9_CallReleasesFrame ==
    (pc = "run" /\ (ev.type = "return" \/ (ev.type = "raise" /\ ev.unwound > 0)))
        => used_locals = ev.call_used_locals

\* C10: the evaluator exits with 1 when the file does not parse or the run
\* ends with an error, and with 0 only when the program ran without error.
C10_ExitCode ==
    (pc = "exit" /\ file.state \notin {"bytecode", "repl"})
        => /\ (file.state = "unparsable" \/ result \in ErrorKinds)
                => exit_code = 1
           /\ exit_code = 0
                => (file.state \in {"ok", "empty"} /\ result \notin ErrorKinds)

\* the opcode and the operands l (pushed first) and r of a binop run
bin_op == BinOps[file.a]
bin_l == Operands[file.b]
bin_r == Operands[file.c]
\* a run of Push l; Push r; op has ended
BinopRan(ops) == pc = "ran" /\ file.fam = "binop" /\ bin_op \in ops

\* C11: Div of a Num by zero raises TypeError or ValueError, so that
\* try (1 / 0) rescue e => e has that error symbol as its value.
C11_DivByZeroRaises ==
    (pc = "ran" /\ file.fam = "try" /\ file.a = 0 /\ file.b = 8)
        => /\ result = "Ok"
           /\ value_of_r.tag = "Sym"
           /\ value_of_r.v \in {"TypeError", "ValueError"}

\* the run has pushed Bool(l < r) for Less, Bool(l <= r) for LessEq, where
\* a comparison with NaN is false
PushedComparison ==
    /\ result = "Ok"
    /\ Len(stack) = 1
    /\ top(stack).tag = "Bool"
    /\ top(stack).v =
            (/\ ~is_nan(bin_l) /\ ~is_nan(bin_r)
             /\ IF bin_op = "Less"
                THEN bin_l.v * bin_r.d < bin_r.v * bin_l.d
                ELSE bin_l.v * bin_r.d <= bin_r.v * bin_l.d)

\* C12 as stated: Less and LessEq, with l pushed before r, push Bool(l < r)
\* and Bool(l <= r) when both are Num, and fail with TypeError when one of
\* them is not a Num.
C12_OrderedCompareEveryNum ==
    BinopRan({"Less", "LessEq"}) =>
        IF bin_l.tag = "Num" /\ bin_r.tag = "Num"
        THEN PushedComparison
        ELSE result = "TypeError"

\* C12, amended: Less and LessEq, with l pushed before r, push Bool(l < r)
\* and Bool(l <= r) when both are Num and neither is NaN, and fail with
\* TypeError when one of them is not a Num or is NaN.
C12_OrderedCompare ==
    BinopRan({"Less", "LessEq"}) =>
        IF /\ bin_l.tag = "Num" /\ bin_r.tag = "Num"
           /\ ~is_nan(bin_l) /\ ~is_nan(bin_r)
        THEN PushedComparison
        ELSE result = "TypeError" /\ stack = <<>>
C12_Witness ==
    /\ BinopRan({"Less"}) /\ result = "Ok"
    /\ bin_l.tag = "Num" /\ bin_r.tag = "Num"
    /\ bin_l.v * bin_r.d < bin_r.v * bin_l.d
    /\ top(stack).v = TRUE

\* the values the truthiness rule names as false
Falsy(val) ==
    \/ val.tag = "Nil"
    \/ (val.tag = "Bool" /\ val.v = FALSE)
    \/ (val.tag = "Num" /\ val.v = 0 /\ val.d = 1)
    \/ (val.tag = "Str" /\ val.v = "")
    \/ (val.tag = "List" /\ val.v = <<>>)
\* a Jmf step goes to its target exactly when the value on top is falsy
C13_JmfStep ==
    AtOp({"Jmf"}) =>
        frames' = IF Falsy(top(stack)) THEN Goto(frames, CurOp.i)
                  ELSE Advance(frames)
\* Push v; Jmf 4; Push 1; Jmp 5; Push 2 ends with 2 on the stack exactly
\* when v is falsy, and with 1 otherwise
C13_JmfRan ==
    (pc = "ran" /\ file.fam = "jmf")
        => /\ result = "Ok"
           /\ ValEq(top(stack),
                    IF Falsy(Conditions[file.a]) THEN Num(2) ELSE Num(1))
\* C13: a value is falsy exactly when it is Nil, Bool(false), Num(0.0), an
\* empty Str or an empty List; every other value is truthy, and Jmf jumps
\* exactly on falsy values.
C13_Truthiness == []C13_JmfRan /\ [][C13_JmfStep]_vars
C13_Witness ==
    /\ pc = "ran" /\ file.fam = "jmf"
    /\ Conditions[file.a].tag = "List" /\ Conditions[file.a].v = <<>>
    /\ ValEq(top(stack), Num(2))

\* x is the Num p / q, for whole p and q # 0
IsQuotient(x, p, q) == x.tag = "Num" /\ x.d > 0 /\ x.v * q = p * x.d
\* x is the remainder of l / r truncated towards zero, r # 0
IsRemainder(x, l, r) ==
    /\ x.tag = "Num" /\ x.d > 0
    /\ Abs(x.v) * r.d < Abs(r.v) * x.d
    /\ Sign(x.v) \in {0, Sign(l.v)}
    /\ ((l.v * x.d - x.v * l.d) * r.d) % (l.d * x.d * Abs(r.v)) = 0
\* x is l op r in f64 arithmetic
IsResult(op, x, l, r) ==
    CASE is_nan(l) \/ is_nan(r) -> x.tag = "Num" /\ is_nan(x)
      [] op = "Add" -> IsQuotient(x, l.v * r.d + r.v * l.d, l.d * r.d)
      [] op = "Sub" -> IsQuotient(x, l.v * r.d - r.v * l.d, l.d * r.d)
      [] op = "Mul" -> IsQuotient(x, l.v * r.v, l.d * r.d)
      [] op = "Div" ->
            IF r.v # 0 THEN IsQuotient(x, l.v * r.d, l.d * r.v)
            ELSE x.tag = "Num" /\ x.d = 0 /\ x.v = Sign(l.v)
      [] op = "Rem" ->
            IF r.v # 0 THEN IsRemainder(x, l, r)
            ELSE x.tag = "Num" /\ x.d = 0 /\ x.v = 0

\* C14: with l pushed first and r second, Add, Sub, Mul, Div and Rem on two
\* Nums consume both and push l op r (Sub pushes l - r), and Add on two Strs
\* pushes l followed by r.
C14_RightOperandOnTop ==
    BinopRan({"Add", "Sub", "Mul", "Div", "Rem"}) =>
        /\ (bin_l.tag = "Num" /\ bin_r.tag = "Num")
                => /\ result = "Ok" /\ Len(stack) = 1
                   /\ IsResult(bin_op, top(stack), bin_l, bin_r)
        /\ (bin_op = "Add" /\ bin_l.tag = "Str" /\ bin_r.tag = "Str")
                => /\ result = "Ok" /\ Len(stack) = 1
                   /\ top(stack).tag = "Str"
                   /\ top(stack).v = bin_l.v \o bin_r.v
C14_Witness ==
    /\ BinopRan({"Sub"}) /\ result = "Ok"
    /\ bin_l.tag = "Num" /\ bin_r.tag = "Num"
    /\ bin_l.v = 2 /\ bin_r.v = 8
    /\ ValEq(top(stack), Num(-6))

\* C15: an arithmetic opcode on operands of incompatible kinds fails with
\* TypeError and pushes no value.
C15_IncompatibleKinds ==
    (BinopRan({"Add", "Sub", "Mul", "Div", "Rem"})
            /\ ~(bin_l.tag = "Num" /\ bin_r.tag = "Num")
            /\ ~(bin_l.tag = "Str" /\ bin_r.tag = "Str"))
        => (result = "TypeError" /\ stack = <<>>)
C15_Witness ==
    /\ BinopRan({"Add"}) /\ bin_l.tag = "Str" /\ bin_r.tag = "Num"
    /\ result = "TypeError" /\ stack = <<>>

\* a whole number as an unsigned 16-bit pattern, and back
to_bits16(n) == IF n < 0 THEN n + 65536 ELSE n
of_bits16(n) == IF n >= 32768 THEN n - 65536 ELSE n
\* a op b on signed 64-bit integers, for small a and b (b >= 0 in a shift)
i64_op(op, a, b) ==
    CASE op = "Shl" -> a * pow2(b)
      [] op = "Shr" -> a \div pow2(b)
      [] OTHER -> of_bits16(bits(op, to_bits16(a), to_bits16(b)))

\* C16: on two whole Nums of either sign BitAnd, BitOr, Xor, Shl and Shr push
\* the Num of the operation on signed 64-bit integers; an operand with a
\* fractional part makes them fail with TypeError.
C16_BitwiseOnSigned ==
    (BinopRan({"BitAnd", "BitOr", "Xor", "Shl", "Shr"})
            /\ bin_l.tag = "Num" /\ bin_r.tag = "Num")
        => IF bin_l.d = 1 /\ bin_r.d = 1
           THEN (bin_op \in {"Shl", "Shr"} => bin_r.v >= 0)
                    => /\ result = "Ok"
                       /\ ValEq(top(stack), Num(i64_op(bin_op, bin_l.v, bin_r.v)))
           ELSE result = "TypeError"

\* C17: a reference compiles to Load(slot) exactly when the scope being
\* compiled binds the name, and to Loag(name) otherwise: in a lambda inside
\* fn p, the reference to p is Loag(p), which reads the global p or fails
\* with NameError.
C17_NameResolution ==
    /\ (pc = "run" /\ file.fam = "scope"
            /\ Len(frames) = (IF file.a = 0 THEN 2 ELSE 3))
        => cur.bytecode =
                <<OpN("Save", 0),
                  IF file.a \in {1, 2} THEN OpS("Loag", "p") ELSE OpN("Load", 0)>>
    /\ (pc = "ran" /\ file.fam = "scope")
        => CASE file.a = 0 -> result = "Ok" /\ ValEq(value_of_r, Num(7))
             [] file.a = 1 -> result = "NameError"
             [] file.a = 2 -> result = "Ok" /\ ValEq(value_of_r, Num(5))
             [] file.a = 3 -> result = "Ok" /\ ValEq(value_of_r, Num(1))
C17_Witness ==
    /\ pc = "ran" /\ file.fam = "scope" /\ file.a = 2
    /\ ValEq(value_of_r, Num(5))

\* C18: after let x = v, a later reference to x in the scope yields v,
\* whether x is new in the scope, bound by an earlier let or a parameter;
\* the let itself yields Nil.
C18_LetBindsName ==
    (pc = "ran" /\ file.fam = "let")
        => /\ result = "Ok"
           /\ ValEq(value_of_r,
                    CASE file.a = 0 -> Num(5)
                      [] file.a = 1 -> Num(6)
                      [] file.a = 2 -> Num(6)
                      [] file.a = 3 -> Num(13)
                      [] file.a = 4 -> Nil
                      [] file.a = 5 -> Num(14))

\* the operands of let r = A op B
logic_op == LogicOps[file.a + 1]
logic_A == LogicOperands[file.b]
logic_B == LogicOperands[file.c]
\* the run is at the Savg of let r = A op B, A a literal
AtSavgOfLogic(op) ==
    /\ AtOp({"Savg"}) /\ file.fam = "logic" /\ logic_op = op
    /\ logic_A.kind = "Lit"
\* the run of let r = A op B has ended, A a literal
LogicRan(op) ==
    /\ pc = "ran" /\ file.fam = "logic" /\ logic_op = op
    /\ logic_A.kind = "Lit"

\* C19: in A or B, when A is truthy B is not evaluated and the value on top
\* of the stack is A's; when A is falsy the value on top is B's.
C19_OrShortCircuit ==
    /\ AtSavgOfLogic("Or")
        => ValEq(top(stack),
                 IF Falsy(logic_A.lit) THEN logic_B.lit ELSE logic_A.lit)
    /\ LogicRan("Or")
        => (result = "Ok") = (~Falsy(logic_A.lit) \/ logic_B.kind = "Lit")
C19_Witness ==
    /\ AtSavgOfLogic("Or") /\ file.b = 2 /\ logic_B.kind = "Var"
    /\ ValEq(top(stack), Num(5))

\* C20: in A and B, when A is falsy B is not evaluated and the result is
\* A's value; when A is truthy the result is B's value; either way the
\* stack is one value deeper than before the expression.
C20_AndShortCircuit ==
    /\ AtSavgOfLogic("And")
        => /\ ValEq(top(stack),
                    IF Falsy(logic_A.lit) THEN logic_A.lit ELSE logic_B.lit)
           /\ Len(stack) = 1
    /\ LogicRan("And")
        => (result = "Ok") = (Falsy(logic_A.lit) \/ logic_B.kind = "Lit")
C20_Witness ==
    /\ AtSavgOfLogic("And") /\ file.b = 1 /\ logic_B.kind = "Var"
    /\ ValEq(top(stack), Num(0)) /\ Len(stack) = 1

\* the instruction vectors of a compilation that is running: the vector
\* given to run and the body of every function in the constant pool, the
\* methods of the types in the pool included
CompiledVectors ==
    {frames[d].bytecode : d \in 1..Len(frames)}
    \cup {constants[i].v.body.code :
            i \in {j \in 1..Len(constants) : constants[j].tag = "Fn"}}
    \cup UNION {{constants[i].v.fields[m].v.body.code :
                    m \in DOMAIN constants[i].v.fields} :
                i \in {j \in 1..Len(constants) : constants[j].tag = "Type"}}
\* the indices (from 0) of the Jmp, Jmf and Try instructions of a vector
JumpIndices(code) ==
    {i \in 0..(Len(code) - 1) : code[i + 1].op \in {"Jmp", "Jmf", "Try"}}

\* C21: in every instruction vector the compiler returns, each Jmp, Jmf and
\* Try has a target greater than its own index and at most the length of
\* the vector, so no placeholder 0 is left.
C21_BackPatched ==
    (pc = "run" /\ file.state \in {"ok", "repl"})
        => \A code \in CompiledVectors :
                \A i \in JumpIndices(code) :
                    code[i + 1].i > i /\ code[i + 1].i <= Len(code)
C21_Witness ==
    /\ pc = "run" /\ file.fam = "nest" /\ file.a = 2
    /\ \E code \in CompiledVectors :
            /\ \E i \in JumpIndices(code) : code[i + 1].op = "Try"
            /\ \E i \in JumpIndices(code) : code[i + 1].op = "Jmp"
            /\ \E i \in JumpIndices(code) :
                    code[i + 1].op = "Jmf" /\ code[i + 1].i = Len(code) - 2

\* the operands of the Push instructions of a vector, in order
PushIndices(code) ==
    LET idx == {i \in 1..Len(code) : code[i].op = "Push"}
        nth[k \in 0..Cardinality(idx)] ==
            IF k = 0 THEN 0
            ELSE CHOOSE i \in idx : i > nth[k - 1]
                    /\ \A j \in idx : j > nth[k - 1] => i <= j
    IN  [k \in 1..Cardinality(idx) |-> code[nth[k]].i]

\* C22: after compiling a program no two entries of the constant pool are
\* equal, and a literal equal to an existing entry reuses that entry's index:
\* the three elements of [1, 1, 1] are pushed from one pool entry.
C22_PoolDeduplicated ==
    (pc = "run" /\ file.state \in {"ok", "repl"})
        => /\ \A i, j \in 1..Len(constants) :
                    i # j => ~ValEq(constants[i], constants[j])
           /\ (file.fam = "list" /\ file.a = 2)
                => /\ Len(constants) = 2
                   /\ \E k \in 0..1 :
                        /\ ValEq(constants[k + 1], Num(1))
                        /\ PushIndices(frames[1].bytecode) = <<1 - k, k, k, k>>
C22_Witness ==
    /\ pc = "run" /\ file.fam = "list" /\ file.a = 2
    /\ Len(frames) = 1 /\ cur.ip = 0
    /\ Len(PushIndices(cur.bytecode)) = 4
    /\ Len(constants) = 2

\* the pool the compiler was filling when it emitted the running vector: in a
\* REPL session the functions are the ones the first line defined, and every
\* other vector belongs to the compilation that was installed last
PoolAtEmission ==
    IF file.state = "repl" /\ Len(frames) > 1
    THEN compile_stmts(ReplLines(file)[1].stmts).constants
    ELSE constants

\* C23: whenever Push(k) executes, the value pushed is the constant the
\* compiler assigned to index k when it emitted the instruction, also in the
\* body of a function stored in a global by an earlier line of a REPL session
\* and called after set_consts installed the pool of a later line.
C23_Step ==
    (pc = "run" /\ file.state \in {"ok", "repl"} /\ AtOp({"Push"}))
        => /\ CurOp.i < Len(PoolAtEmission)
           /\ stack' = push(stack, PoolAtEmission[CurOp.i + 1])
C23_PushStable == [][C23_Step]_vars

\* the method m of the type of the object bound to the global o
method_of_o == type_of(globals["o"]).fields["m"]

\* the executing frame runs the method m of the type of o and is at its
\* first instruction after the leading Saves
AtBodyOfM ==
    /\ pc = "run" /\ file.fam = "invoke" /\ Len(frames) > 1
    /\ has_global(globals, "o")
    /\ cur.bytecode = method_of_o.v.body.code
    /\ cur.ip = method_of_o.v.arity

\* C24: obj.m a1 .. an calls the method that Ref(m) finds on the type of obj
\* with n + 1 arguments: obj is the first parameter (self) and a1 .. an are
\* the parameters 2 .. n + 1 in surface order.
C24_InvokeBindsSelf ==
    /\ (pc = "run" /\ file.fam = "invoke" /\ Len(frames) = 1 /\ AtOp({"Call"}))
        => /\ CurOp.i = file.a + 1
           /\ top(stack) = method_of_o
           /\ top(stack).v.arity = file.a + 1
    /\ AtBodyOfM
        => /\ local_at(locals, frame_base) = globals["o"]
           /\ \A i \in 1..file.a :
                ValEq(local_at(locals, frame_base + i), Num(i))
           /\ Len(stack) = cur.call_stack_len
    /\ (pc = "ran" /\ file.fam = "invoke")
        => /\ result = "Ok"
           /\ IF file.b = 1 THEN value_of_r = globals["o"]
              ELSE ValEq(value_of_r,
                         Num(500 + (IF file.a = 0 THEN 0
                                    ELSE digits_value(file.a))))
C24_Witness ==
    /\ AtBodyOfM /\ file.a = 2 /\ file.c = 0
    /\ globals["o"].tag = "Instance"
    /\ ValEq(local_at(locals, frame_base + 2), Num(2))

\* the elements, in order, of the list each program of fam "list" writes
ListElements(a) ==
    CASE a = 0 -> <<>>
      [] a = 1 -> <<Num(1), Num(2), Num(3)>>
      [] a = 2 -> <<Num(1), Num(1), Num(1)>>
      [] a = 3 -> <<Num(0), Num(1), Num(2)>>
      [] a = 4 -> <<Num(1), Num(2)>>
      [] a = 5 -> <<List(<<Num(1), Num(2)>>), List(<<>>), List(<<Str("s")>>)>>

\* C25: [x1, .., xn] evaluates to the list of length n whose i-th element
\* is the value of xi, and h :: t to the list t with the value of h put in
\* front; one value is left on the stack for it.
C25_ListValue ==
    (file.fam = "list" /\ file.a \in 0..5)
        => /\ (pc = "run" /\ AtOp({"Savg"}))
                => /\ Len(stack) = 1
                   /\ top(stack) = List(ListElements(file.a))
           /\ pc = "ran"
                => /\ result = "Ok"
                   /\ value_of_r.tag = "List"
                   /\ Len(value_of_r.v) = Len(ListElements(file.a))
                   /\ \A i \in 1..Len(ListElements(file.a)) :
                        value_of_r.v[i] = ListElements(file.a)[i]
C25_Witness ==
    /\ pc = "ran" /\ file.fam = "list" /\ file.a = 3
    /\ value_of_r = List(<<Num(0), Num(1), Num(2)>>)

\* C26: a top-level def or let, once run, leaves globals[name] equal to the
\* value of its expression and the stack at the depth it had before the
\* statement (the depth at which the run started, since every statement
\* before it left it there); a later Loag(name) pushes that value, also in
\* a later run on the same machine.
C26_Step ==
    /\ (file.state \in {"ok", "repl"} /\ Len(frames) = 1 /\ AtOp({"Savg"}))
        => /\ has_global(globals', CurOp.s)
           /\ globals'[CurOp.s] = top(stack)
           /\ Len(stack') = cur.call_stack_len
    /\ (file.state \in {"ok", "repl"} /\ AtOp({"Loag"})
            /\ has_global(globals, CurOp.s))
        => stack' = push(stack, globals[CurOp.s])
C26_TopLevelBinding == [][C26_Step]_vars

\* the indices (from 0) of the Try instructions of a vector; the rescue part
\* of the try at index i goes from the target of the Try to the target of
\* the Jmp that stands before it
TryIndices(code) == {i \in 0..(Len(code) - 1) : code[i + 1].op = "Try"}
RescueEntry(code, i) == code[i + 1].i
RescueEnd(code, i) == code[RescueEntry(code, i)].i
\* the number of try expressions the try at index i is in the body of
HandlersBefore(code, i) ==
    Cardinality({j \in TryIndices(code) :
                    j < i /\ RescueEntry(code, j) > RescueEntry(code, i)})
\* the frame that runs the try of a program of fam "try"
TryFrame == IF file.a \in {1, 2} THEN 2 ELSE 1
\* the bodies of fam "try" that complete without raising, and their values
CompletingBodies == {0, 6}
BodyValue(b) == IF b = 0 THEN 3 ELSE 9

\* C27: when the body of try body rescue x => r completes without raising,
\* the result is the body's value, the frame never executes an instruction
\* of the rescue part, and after the EndTry the frame's handler stack has
\* the depth it had before the Try.
C27_TryWithoutRaise ==
    (file.fam = "try" /\ file.a \in {0, 1, 2, 4} /\ file.b \in CompletingBodies)
        => /\ (pc = "run" /\ Len(frames) >= TryFrame)
                => LET fr == frames[TryFrame]
                       code == fr.bytecode
                   IN  \A i \in TryIndices(code) :
                        /\ fr.ip \notin
                            RescueEntry(code, i)..(RescueEnd(code, i) - 1)
                        /\ fr.ip \in {RescueEntry(code, i) - 1,
                                      RescueEnd(code, i)}
                            => Len(fr.try_stack) = HandlersBefore(code, i)
           /\ pc = "ran"
                => /\ result = "Ok"
                   /\ ValEq(value_of_r,
                            Num(BodyValue(file.b)
                                + (IF file.a = 4 THEN 2 ELSE 0)))
C27_Witness ==
    /\ pc = "run" /\ file.fam = "try" /\ file.a = 4 /\ file.b = 6
    /\ Len(frames) = 1
    /\ \E i \in TryIndices(cur.bytecode) :
            /\ HandlersBefore(cur.bytecode, i) = 1
            /\ cur.ip = RescueEnd(cur.bytecode, i)
            /\ Len(cur.try_stack) = 1
            /\ ValEq(top(stack), Num(9))

\* C28: when an instruction fails while the handler stack of its frame is
\* not empty, the machine pops the top handler offset t, pushes the kind of
\* the error as a Sym, and the next instruction the frame dispatches is the
\* one at index t, the rescue entry the compiler patched into the Try.
C28_Step ==
    (pc = "run" /\ frames # <<>> /\ cur.try_stack # <<>>
                /\ ev'.type = "raise")
        => /\ Len(frames') = Len(frames)
           /\ frames'[Len(frames')].try_stack = pop(cur.try_stack)
           /\ stack' # <<>> /\ top(stack') = Sym(ev'.kind)
           /\ frames'[Len(frames')].ip = top(cur.try_stack)
C28_HandlerDispatch == [][C28_Step]_vars

\* C29: a Call never changes the locals of its caller: the caller saves 2 in
\* its local y, calls (fn q = q) 9 and then loads y, which yields 2 on every
\* path of the caller, also when a Save of a lower slot of the scope (the
\* binding of a let in a branch not taken, of a rescue or of a wildcard) was
\* never executed.
C29_FramesDoNotOverlap ==
    (pc = "ran" /\ file.fam = "frames")
        => (result = "Ok" /\ ValEq(value_of_r, Num(2)))

\* the value of the condition of a program of fam "if"
IfConditionValue(a) ==
    LET e == IfConditions[a]
    IN  IF e.kind = "Lit" THEN e.lit
        ELSE List([i \in 1..Len(e.xs) |-> e.xs[i].lit])
\* the index (from 0) of the Jmf of the if in the top-level vector: the then
\* branch is the instruction after it, followed by the Jmp, and the else
\* branch is the instruction after the Jmp
IfJmf(code) == CHOOSE j \in JumpIndices(code) : code[j + 1].op = "Jmf"

\* C30: of if c then t else e exactly one branch executes, t when c is
\* truthy and e otherwise; the condition is consumed and the stack is one
\* value deeper than before the if on both paths.
C30_IfOneBranch ==
    file.fam = "if"
        => LET truthy == to_bool(IfConditionValue(file.a))
               taken_is_literal == IF truthy THEN file.b = 0 ELSE file.c = 0
           IN  /\ (pc = "run" /\ frames # <<>>)
                    => LET j == IfJmf(frames[1].bytecode)
                       IN  IF truthy THEN frames[1].ip # j + 3
                           ELSE frames[1].ip \notin {j + 1, j + 2}
               /\ (pc = "run" /\ AtOp({"Savg"}))
                    => /\ Len(stack) = 1
                       /\ taken_is_literal
                       /\ ValEq(top(stack), Num(IF truthy THEN 1 ELSE 2))
               /\ pc = "ran"
                    => result = (IF taken_is_literal THEN "Ok" ELSE "NameError")
C30_Witness ==
    /\ pc = "run" /\ file.fam = "if" /\ AtOp({"Savg"})
    /\ file.a = 2 /\ file.c = 1
    /\ stack = <<Num(1)>>

\* C31: a or b leaves exactly one value on the stack on both paths: at the
\* Savg of let r = A or B the stack is one deeper than before the
\* expression, when A is truthy and when A is falsy.
C31_OrLeavesOneValue == AtSavgOfLogic("Or") => Len(stack) = 1

\* the number of the first arm of fam "when" whose condition is the literal
\* equal to the scrutinee, 0 when there is none
WhenMatch(a, c) ==
    LET ms == {k \in 1..Len(WhenArms(c)) : WhenArms(c)[k].cond = num(a)}
    IN  IF ms = {} THEN 0 ELSE CHOOSE k \in ms : \A m \in ms : k <= m
\* the index of the Jmf of arm k in the code of fam "when"
RECURSIVE ArmJmf(_, _)
ArmJmf(code, k) ==
    LET js == {j \in JumpIndices(code) : code[j + 1].op = "Jmf"}
        later == IF k = 1 THEN js ELSE {j \in js : j > ArmJmf(code, k - 1)}
    IN  CHOOSE j \in later : \A m \in later : j <= m
\* the value of the wildcard b for the scrutinee a
WildCardValue(a, b) ==
    CASE b = 0 -> Nil
      [] b = 1 -> Num(40)
      [] b = 2 -> Num(a + 100)

\* C32: when selects the first matching arm: the conditions are evaluated
\* in source order and compared to the scrutinee; the result is the body of
\* the first arm that compares equal, and the frame never reaches the
\* condition or the body of a later arm nor the body of an earlier one;
\* when no arm matches the result is the wildcard body's value, with the
\* scrutinee bound to the wildcard's name, or nil without a wildcard.
C32_WhenFirstMatch ==
    file.fam = "when"
        => LET k == WhenMatch(file.a, file.c)
               n == Len(WhenArms(file.c))
           IN  /\ (pc = "run" /\ frames # <<>>)
                    => LET code == frames[1].bytecode
                           ip == frames[1].ip
                       IN  /\ \A j \in 1..n :
                                (j < k \/ k = 0)
                                    => ip \notin {ArmJmf(code, j) + 1,
                                                  ArmJmf(code, j) + 2,
                                                  ArmJmf(code, j) + 3}
                           /\ k > 0
                                => ip \notin (code[ArmJmf(code, k) + 1].i)
                                                ..(Len(code) - 2)
               /\ (pc = "ran" /\ k > 0)
                    => /\ result = "Ok"
                       /\ ValEq(value_of_r, WhenArms(file.c)[k].body.lit)
               /\ (pc = "ran" /\ k = 0)
                    => IF file.c = 1 THEN result = "NameError"
                       ELSE /\ result = "Ok"
                            /\ ValEq(value_of_r,
                                     WildCardValue(file.a, file.b))
C32_Witness ==
    /\ pc = "ran" /\ file.fam = "when"
    /\ file.a = 1 /\ file.c = 2
    /\ ValEq(value_of_r, Num(10))

\* the Savg of let r = when .. is about to be dispatched
AtSavgOfWhen == AtOp({"Savg"}) /\ file.fam = "when"

\* C33: a compiled when leaves exactly one value on the stack on every
\* path (a matched arm, a wildcard that binds a name, a wildcard that binds
\* none, no wildcard): at the Savg of let r = when .. the stack is one
\* deeper than before the scrutinee, without a copy of the scrutinee
\* beneath the result.
C33_WhenLeavesOneValue == AtSavgOfWhen => Len(stack) = 1

\* the bodies of fam "try" that raise inside the try (b = 4 leaves the frame
\* through TCall instead)
TryRaisingBodies == {1, 2, 3, 5, 7, 9, 10}

\* C34: try body rescue x => r whose body raises leaves exactly one value
\* on the stack: at the Savg of let r = try body rescue e => e the stack is
\* one deeper than before the Try, whatever body had pushed and the failing
\* instruction had popped when the error was raised.
C34_RescueLeavesOneValue ==
    (AtOp({"Savg"}) /\ file.fam = "try" /\ file.a = 0
        /\ file.b \in TryRaisingBodies)
        => Len(stack) = 1

\* the number of try bodies of code that enclose the instruction at index i:
\* the body of the Try at t runs from t + 1 to its EndTry, two before the
\* rescue entry
Enclosing(code, i) ==
    Cardinality({t \in TryIndices(code) :
                    t < i /\ i <= RescueEntry(code, t) - 2})

\* C35: handler-stack balance: whenever the instruction at index i of a
\* frame is about to be dispatched, the depth of the frame's handler stack
\* is the number of try bodies that enclose i, also after the frame was
\* restarted by an accepted TCall issued inside a try body.
C35_HandlerStackBalance ==
    (pc = "run" /\ frames # <<>> /\ cur.ip < Len(cur.bytecode))
        => Len(cur.try_stack) = Enclosing(cur.bytecode, cur.ip)

\* the frames beneath the top one that have an active handler
CallersWithHandler ==
    {d \in 1..(Len(frames) - 1) : frames[d].try_stack # <<>>}

\* C36: errors unwind across frames: an error raised in a callee without an
\* active handler is delivered to the innermost handler of the nearest
\* calling frame that has one, which resumes at its rescue entry with the
\* error on the stack while the frames beneath it are left as they were, or
\* ends the run with the error when no frame has a handler; and when a
\* callee returns its handlers go with it: the handler stacks of the frames
\* that remain are what they were, so a later error never uses them.
C36_Step ==
    /\ (pc = "run" /\ Len(frames) >= 2 /\ cur.try_stack = <<>>
            /\ ev'.type = "raise")
        => IF CallersWithHandler = {}
           THEN pc' = "ran" /\ result' = ev'.kind /\ frames' = <<>>
           ELSE LET d == CHOOSE k \in CallersWithHandler :
                            \A m \in CallersWithHandler : m <= k
                    t == top(frames[d].try_stack)
                IN  /\ pc' = "run" /\ Len(frames') = d
                    /\ frames'[d].try_stack = pop(frames[d].try_stack)
                    /\ frames'[d].ip = t + 1
                    /\ t \in {RescueEntry(frames[d].bytecode, i) :
                                i \in TryIndices(frames[d].bytecode)}
                    /\ stack' # <<>> /\ top(stack') = Sym(ev'.kind)
                    /\ \A k \in 1..(d - 1) : frames'[k] = frames[k]
    /\ (pc = "run" /\ Len(frames) >= 2 /\ ev'.type = "return")
        => /\ Len(frames') = Len(frames) - 1
           /\ \A k \in 1..Len(frames') :
                frames'[k].try_stack = frames[k].try_stack
C36_ErrorsUnwindAcrossFrames == [][C36_Step]_vars
\* the callee of try ((fn q = q + "s") 1) + 2 rescue e => e, itself in the
\* body of a function, has failed and the function's handler has the error
C36_Witness ==
    /\ pc = "run" /\ file.fam = "try" /\ file.a = 1 /\ file.b = 5
    /\ ev.type = "raise" /\ ev.unwound = 1 /\ Len(frames) = 2
    /\ cur.try_stack = <<>> /\ top(stack) = Sym("TypeError")

\* the vector holds no Call and no TCall
CallFree(code) ==
    \A i \in 1..Len(code) : code[i].op \notin {"Call", "TCall"}
\* the top frame runs a call-free vector and is about to dispatch
AtCallFree ==
    /\ pc = "run" /\ frames # <<>>
    /\ CallFree(cur.bytecode) /\ cur.ip < Len(cur.bytecode)

\* C37: run on a compiled vector without Call and TCall terminates: every
\* dispatch either ends the frame or moves its ip strictly forward, to at
\* most the length of the vector, so each index is dispatched at most once
\* and the dispatches number at most the length; the frame does stop
\* dispatching, and the outermost run returns (Ok or an unhandled error).
C37_Step ==
    AtCallFree
        => \/ pc' # "run"
           \/ Len(frames') < Len(frames)
           \/ /\ Len(frames') = Len(frames)
              /\ frames'[Len(frames')].bytecode = cur.bytecode
              /\ frames'[Len(frames')].ip > cur.ip
              /\ frames'[Len(frames')].ip <= Len(cur.bytecode)
C37_CallFreeTerminates ==
    /\ [][C37_Step]_vars
    /\ AtCallFree ~> ~AtCallFree
    /\ (AtCallFree /\ Len(frames) = 1) ~> (pc = "ran")
\* the when of let r = when 3 | 1 => 10 | 2 => 20 | w => w + 100 has run
\* through two arms and its wildcard to the end of the vector
C37_Witness ==
    /\ pc = "run" /\ file.fam = "when"
    /\ file.a = 3 /\ file.b = 2 /\ file.c = 0
    /\ CallFree(cur.bytecode) /\ cur.ip = Len(cur.bytecode)

\* C38: an aborted run leaks no state into later runs: when a run of the
\* REPL returns an unhandled error, used_locals is what it was when the run
\* began, and the reset that follows empties the stack and leaves
\* used_locals at that value, so the next run has the same frame base.
C38_Step ==
    /\ (file.state = "repl" /\ pc = "run" /\ pc' = "ran" /\ result' # "Ok")
        => used_locals' = frames[1].call_used_locals
    /\ (file.state = "repl" /\ pc = "ran" /\ pc' = "prompt")
        => stack' = <<>> /\ used_locals' = used_locals
C38_AbortLeaksNothing == [][C38_Step]_vars

\* the names of the opcodes of a vector
OpNames(code) == [i \in 1..Len(code) |-> code[i].op]
\* the opcodes of e1; Pop; ..; ea, each sub-expression a literal
RECURSIVE DoOps(_)
DoOps(a) == IF a = 1 THEN <<"Push">> ELSE <<"Push", "Pop">> \o DoOps(a - 1)
\* the index (from 0) of the first instruction of the else branch of the if
\* of fam "do"
DoElse(code) == code[IfJmf(code) + 1].i

\* C39: compiling a do block only removes its own trailing Pop: in the
\* else branch of let r = if C then 0 else 7 + do e1; ..; ea end the Push
\* of 7, emitted before the block, is still there for every a, also a = 0,
\* and for a > 0 the block's code is each sub-expression followed by Pop
\* except the last.
C39_DoRemovesOwnPop ==
    (pc = "run" /\ file.fam = "do" /\ frames # <<>>)
        => LET code == frames[1].bytecode
               else == DoElse(code)
           IN  /\ else < Len(code) /\ code[else + 1].op = "Push"
               /\ constants[code[else + 1].i + 1] = Num(7)
               /\ file.a > 0
                    => SubSeq(OpNames(code), else + 1, Len(code))
                        = <<"Push">> \o DoOps(file.a) \o <<"Add", "Savg">>
====
